---- MODULE Spec2Model ----
(***************************************************************************)
(* The hash dictionary of src/src/dict.c (two bucket tables, chaining,     *)
(* incremental rehash) as a state machine.  One dictionary `d` is driven   *)
(* by a single caller; every public function is one action.                *)
(*                                                                         *)
(* Representation                                                          *)
(*   - a bucket table (dictht) is a record; its bucket array `table` is a  *)
(*     function from 0..size-1 to chains, a NULL array is the function     *)
(*     with the empty domain;                                              *)
(*   - a chain is the sequence of its entries from the bucket head on;     *)
(*   - a dictEntry is a record [key, val]; a dictEntry pointer is the      *)
(*     place [t, idx, pos] of the entry (table, bucket, position in the    *)
(*     chain), and a possibly-NULL pointer is a sequence of length 0 or 1. *)
(*                                                                         *)
(* Each C function is an operator from the dict (and the arguments) to a   *)
(* record of the dict afterwards, the value returned and, where the        *)
(* function calls back into the type or the allocator, the sequence `ev`   *)
(* of those calls in program order.  The actions apply the operators to    *)
(* the state.  Memory allocation succeeds (zmalloc's out-of-memory handler *)
(* is not part of this model).                                             *)
(*                                                                         *)
(* Six callers are specified: Spec (insert, replace, find, remove,         *)
(* unlink, explicit expand / resize / rehash), SpecResize (automatic       *)
(* resizing switched on and off), SpecIter (a safe iterator and the        *)
(* calls made while it is held), SpecFast (an unsafe iterator and its      *)
(* fingerprint), SpecScan (dictScan between resizes) and SpecSome          *)
(* (dictGetSomeKeys with every sequence of random numbers).                *)
(*                                                                         *)
(* The background job queues of bio.c (in src/src/zmalloc.c) are a second  *)
(* state machine over variables of their own: a calling thread and one     *)
(* worker thread per job kind, one step per statement that takes or gives  *)
(* up a mutex or waits on a condition variable (SpecBio).                  *)
(*                                                                         *)
(* Further callers: SpecGrow (inserts only, the dict growing on its own),  *)
(* SpecMem (zmalloc.c: allocations and the used-memory counter), and, for  *)
(* the snapshot code of rdb.c (src/unnamed/part_000): SpecLen (length      *)
(* encodings), SpecStr (strings and their integer encodings), SpecRio (a   *)
(* whole file saved by rdbSaveRio, one byte of it damaged or not, loaded   *)
(* by rdbLoadRio) and SpecSave (SAVE, BGSAVE, the child process and the    *)
(* handler of its end, with the files on disk).  A file is the sequence    *)
(* of its bytes.  rdb.h, rio.c, crc64.c, util.c and server.c are not       *)
(* among the sources: the values of their constants are those rdb.c uses,  *)
(* and crc64 is a stand-in checksum that depends on every byte and its     *)
(* position.                                                               *)
(*                                                                         *)
(* More callers: SpecDrain and SpecDrainFair (dictRehash called until the  *)
(* rehash is over), SpecWalk (one complete walk with a safe iterator),     *)
(* SpecEmpty (dictEmpty while a safe iterator is held), SpecThreads (the   *)
(* main thread and a background worker in the allocator at once, a call    *)
(* being the steps of its code; atomicvar.h is not among the sources),     *)
(* SpecJobs and SpecJobsFair (the job queues with the scheduling of their  *)
(* threads), SpecLayout (rdbSaveRio with and without replication           *)
(* information and cached scripts), SpecRuns (streams of records with      *)
(* their metadata opcodes, loaded by rdbLoadRio) and SpecChildren (the     *)
(* snapshot children: BGSAVE, the transfer to the replicas, an AOF rewrite *)
(* and the handlers).                                                      *)
(***************************************************************************)
EXTENDS Integers, Sequences, FiniteSets, TLC

\* ------------------------------------------------------------- bounds
NumKeys == 4        \* keys the caller uses: 1..NumKeys
NumKeysResize == 5  \* keys of the caller that switches resizing on and off
NumVals == 2        \* values the caller uses: 1..NumVals
MaxExpand == 5      \* largest size argument given to dictExpand
MaxSteps == 2       \* largest n given to dictRehash, count given to dictGetSomeKeys
MaxChunks == 2      \* chunks the clock allows dictRehashMilliseconds
LogWordBits == 3    \* an unsigned long has 2^LogWordBits bits
NumKeysScan == 3    \* keys of the caller that scans
MaxRandom == 15     \* largest value random() returns
NumKeysGrow == 25   \* keys of the caller that only grows the dict
MaxBlocks == 2      \* blocks the caller of zmalloc holds at a time
MaxSize == 9        \* largest size given to zmalloc, zcalloc and zrealloc
NumKinds == 2       \* job kinds in use: 0..NumKinds-1 (of BIO_NUM_OPS)
MaxJobs == 3        \* calls of bioCreateBackgroundJob
MaxWaits == 2       \* calls of bioWaitStepOfType in a row

Keys == 1..NumKeys
KeysResize == 1..NumKeysResize
KeysScan == 1..NumKeysScan
AllKeys == Keys \cup KeysResize \cup KeysScan
Vals == 1..NumVals

\* ------------------------------------------------- program constants
DICT_OK == 0
DICT_ERR == 1
DICT_HT_INITIAL_SIZE == 4
dict_force_resize_ratio == 5
\* <limits.h>; the value of an ILP32 build (the LP64 value does not fit the
\* model checker's integers).  No size of the model comes near it.
LONG_MAX == 2147483647
\* content of an entry's value field that was never set (zmalloc'ed memory)
UNSET == 0
\* ghost: what the caller has bound to a key, <<>> for nothing or <<val>>
ABSENT == <<>>

VARIABLES
    d,               \* the dict: [ht, rehashidx, iterators, aborted]
    dict_can_resize, \* the static flag of dict.c
    unlinked,        \* entries detached by dictUnlink and not yet released
    iter,            \* the caller's dictIterator
    kv,              \* ghost: the abstract map key -> value the calls describe
    scan,            \* the caller's dictScan cursor and (ghost) its traversal
    last,            \* the last call: its name, its size or count argument, its result
    bio_jobs,        \* bio.c: the list of jobs of each kind
    bio_pending,     \* bio.c: the pending counter of each kind
    bio_mutex,       \* bio.c: the owner of the mutex of each kind
    bio_thread,      \* the worker thread of each kind: [pc, ln]
    caller,          \* the thread that calls the bio API: [pc, type, arg, ...]
    history,         \* ghost: jobs submitted and executed, waits returned
    zm,              \* zmalloc.c: [used_memory, header], header[p] the size kept
                     \* in front of block p
    rdb,             \* the snapshot stream and the servers that save and load it
    server           \* the saving server: its counters, its child and the disk

bioVars == <<bio_jobs, bio_pending, bio_mutex, bio_thread, caller, history>>
vars == <<d, dict_can_resize, unlinked, iter, kv, scan, last, bioVars, zm, rdb, server>>

\* ------------------------------------------------------------ helpers
\* x & y on non-negative integers
RECURSIVE BitAnd(_, _)
BitAnd(x, y) ==
    IF x = 0 \/ y = 0 THEN 0
    ELSE (x % 2) * (y % 2) + 2 * BitAnd(x \div 2, y \div 2)

\* dictHashKey: the type's hash callback, here a fixed function onto 4 bits.
\* Keys 1 and 2 share a bucket of a 4-bucket table and part in an 8-bucket
\* one; no key of 1..4 hashes to bucket 0, so a rehash meets empty buckets.
KeyHash == <<1, 5, 2, 11, 8, 14, 3, 13>>
dictHashKey(key) == KeyHash[((key - 1) % Len(KeyHash)) + 1]

\* dictCompareKeys, with the key==he->key shortcut in front of it
dictCompareKeys(key1, key2) == key1 = key2

NoEntry == <<>>
Ev(e, key, val) == [e |-> e, key |-> key, val |-> val]

\* position of the first entry of `chain` whose key is `key`, 0 when none
RECURSIVE ChainPos(_, _, _)
ChainPos(chain, key, pos) ==
    IF pos > Len(chain) THEN 0
    ELSE IF dictCompareKeys(key, chain[pos].key) THEN pos
    ELSE ChainPos(chain, key, pos + 1)

RemoveAt(chain, pos) ==
    SubSeq(chain, 1, pos - 1) \o SubSeq(chain, pos + 1, Len(chain))

\* *ptr for a dictEntry pointer
EntryAt(dd, loc) == dd.ht[loc.t].table[loc.idx][loc.pos]

\* ---------------------------------------------------------- the dict
\* Let(v, F) is F(v) with v evaluated once: the local variables of the C
\* functions are bound this way.
Let(v, F(_)) == CHOOSE r \in {F(x) : x \in {v}} : TRUE

\* _dictReset
NullTable == [i \in {} |-> <<>>]
_dictReset == [table |-> NullTable, size |-> 0, sizemask |-> 0, used |-> 0]

IsNull(table) == DOMAIN table = {}

\* _dictInit
_dictInit ==
    [ht |-> [t \in {0, 1} |-> _dictReset], rehashidx |-> -1, iterators |-> 0,
     aborted |-> FALSE]

dictIsRehashing(dd) == dd.rehashidx # -1
dictSize(dd) == dd.ht[0].used + dd.ht[1].used
dictSlots(dd) == dd.ht[0].size + dd.ht[1].size

RECURSIVE NextPowerFrom(_, _)
NextPowerFrom(i, size) == IF i >= size THEN i ELSE NextPowerFrom(i * 2, size)

\* _dictNextPower doubling from 1 instead of DICT_HT_INITIAL_SIZE
_dictNextPower_FromOne(size) ==
    IF size >= LONG_MAX THEN LONG_MAX + 1
    ELSE NextPowerFrom(1, size)

\* _dictNextPower
_dictNextPower(size) ==
    IF size >= LONG_MAX THEN LONG_MAX + 1
    ELSE NextPowerFrom(DICT_HT_INITIAL_SIZE, size)

\* dictExpand rejecting a size equal to the number of entries too
dictExpand_RejectEqual(dd, size) ==
    IF dictIsRehashing(dd) \/ dd.ht[0].used >= size
    THEN [d |-> dd, ret |-> DICT_ERR]
    ELSE Let(_dictNextPower(size), LAMBDA realsize :
         Let([table |-> [i \in 0..(realsize - 1) |-> <<>>],
              size |-> realsize, sizemask |-> realsize - 1, used |-> 0], LAMBDA n :
             IF realsize = dd.ht[0].size THEN [d |-> dd, ret |-> DICT_ERR]
             ELSE IF IsNull(dd.ht[0].table)
                  THEN [d |-> [dd EXCEPT !.ht[0] = n], ret |-> DICT_OK]
                  ELSE [d |-> [dd EXCEPT !.ht[1] = n, !.rehashidx = 0],
                        ret |-> DICT_OK]))

\* dictExpand: [d, ret]
dictExpand(dd, size) ==
    IF dictIsRehashing(dd) \/ dd.ht[0].used > size
    THEN [d |-> dd, ret |-> DICT_ERR]
    ELSE Let(_dictNextPower(size), LAMBDA realsize :
         Let([table |-> [i \in 0..(realsize - 1) |-> <<>>],
              size |-> realsize, sizemask |-> realsize - 1, used |-> 0], LAMBDA n :
             IF realsize = dd.ht[0].size THEN [d |-> dd, ret |-> DICT_ERR]
             ELSE IF IsNull(dd.ht[0].table)
                  THEN [d |-> [dd EXCEPT !.ht[0] = n], ret |-> DICT_OK]
                  ELSE [d |-> [dd EXCEPT !.ht[1] = n, !.rehashidx = 0],
                        ret |-> DICT_OK]))

\* dictResize not looking at dict_can_resize
dictResize_Always(dd) ==
    IF dictIsRehashing(dd)
    THEN [d |-> dd, ret |-> DICT_ERR]
    ELSE Let(IF dd.ht[0].used < DICT_HT_INITIAL_SIZE
             THEN DICT_HT_INITIAL_SIZE ELSE dd.ht[0].used, LAMBDA minimal :
             dictExpand(dd, minimal))

\* dictResize: [d, ret]
dictResize(dd) ==
    IF ~dict_can_resize \/ dictIsRehashing(dd)
    THEN [d |-> dd, ret |-> DICT_ERR]
    ELSE Let(IF dd.ht[0].used < DICT_HT_INITIAL_SIZE
             THEN DICT_HT_INITIAL_SIZE ELSE dd.ht[0].used, LAMBDA minimal :
             dictExpand(dd, minimal))

\* dictRehash's inner loop without the two counter updates
RECURSIVE RehashMoveChain_NoCount(_, _)
RehashMoveChain_NoCount(dd, chain) ==
    IF chain = <<>> THEN dd
    ELSE Let(BitAnd(dictHashKey(Head(chain).key), dd.ht[1].sizemask), LAMBDA h :
         Let([dd EXCEPT !.ht[1].table[h] = <<Head(chain)>> \o @], LAMBDA d1 :
         Let(Tail(chain), LAMBDA rest :
             RehashMoveChain_NoCount(d1, rest))))

\* dictRehash, the inner loop that moves one chain: every entry is
\* unlinked from the head of the old chain and pushed on the head of its
\* bucket of ht[1]
RECURSIVE RehashMoveChain(_, _)
RehashMoveChain(dd, chain) ==
    IF chain = <<>> THEN dd
    ELSE Let(BitAnd(dictHashKey(Head(chain).key), dd.ht[1].sizemask), LAMBDA h :
         Let([dd EXCEPT !.ht[1].table[h] = <<Head(chain)>> \o @,
                        !.ht[0].used = @ - 1,
                        !.ht[1].used = @ + 1], LAMBDA d1 :
         Let(Tail(chain), LAMBDA rest :
             RehashMoveChain(d1, rest))))

\* dictRehash, the loop that skips empty buckets: [d, empty_visits, ret1]
\* where ret1 says that the budget of empty visits ran out (return 1)
RECURSIVE RehashSkipEmpty(_, _)
RehashSkipEmpty(dd, empty_visits) ==
    IF dd.ht[0].table[dd.rehashidx] = <<>>
    THEN Let([dd EXCEPT !.rehashidx = @ + 1], LAMBDA d1 :
         Let(empty_visits - 1, LAMBDA ev1 :
             IF ev1 = 0
             THEN [d |-> d1, empty_visits |-> 0, ret1 |-> TRUE]
             ELSE RehashSkipEmpty(d1, ev1)))
    ELSE [d |-> dd, empty_visits |-> empty_visits, ret1 |-> FALSE]

\* dictRehash's tail leaving ht[1] as it is
RehashFinish_KeepT1(dd) ==
    IF dd.ht[0].used = 0
    THEN [d |-> [dd EXCEPT !.ht[0] = dd.ht[1], !.rehashidx = -1], ret |-> 0]
    ELSE [d |-> dd, ret |-> 1]

\* dictRehash's tail that never ends the rehash
RehashFinish_ReturnOne(dd) == [d |-> dd, ret |-> 1]

\* dictRehash, the tail: ht[0] is empty, ht[1] takes its place
RehashFinish(dd) ==
    IF dd.ht[0].used = 0
    THEN [d |-> [dd EXCEPT !.ht[0] = dd.ht[1], !.ht[1] = _dictReset,
                           !.rehashidx = -1],
          ret |-> 0]
    ELSE [d |-> dd, ret |-> 1]

\* dictRehash, one bucket: the chain at rehashidx goes to ht[1], the bucket
\* is cleared, rehashidx moves on
RehashBucket(dd) ==
    Let(RehashMoveChain(dd, dd.ht[0].table[dd.rehashidx]), LAMBDA mv :
        [mv EXCEPT !.ht[0].table[dd.rehashidx] = <<>>, !.rehashidx = @ + 1])

\* dictRehash, the main loop
RECURSIVE RehashLoop(_, _, _)
RehashLoop(dd, n, empty_visits) ==
    IF n # 0 /\ dd.ht[0].used # 0
    THEN IF ~(dd.ht[0].size > dd.rehashidx)
         THEN [d |-> [dd EXCEPT !.aborted = TRUE], ret |-> 1]
         ELSE Let(RehashSkipEmpty(dd, empty_visits), LAMBDA sk :
                  IF sk.ret1 THEN [d |-> sk.d, ret |-> 1]
                  ELSE Let(RehashBucket(sk.d), LAMBDA d1 :
                       Let(n - 1, LAMBDA n1 :
                           RehashLoop(d1, n1, sk.empty_visits))))
    ELSE RehashFinish(dd)

\* dictRehash: [d, ret]
dictRehash(dd, n) ==
    IF ~dictIsRehashing(dd) THEN [d |-> dd, ret |-> 0]
    ELSE RehashLoop(dd, n, n * 10)

\* _dictRehashStep rehashing two buckets
_dictRehashStep_Two(dd) ==
    IF dd.iterators = 0 THEN dictRehash(dd, 2).d ELSE dd

\* _dictRehashStep: the dict after it
_dictRehashStep(dd) ==
    IF dd.iterators = 0 THEN dictRehash(dd, 1).d ELSE dd

\* _dictExpandIfNeeded asking for used buckets instead of used * 2
_dictExpandIfNeeded_ToUsed(dd) ==
    IF dictIsRehashing(dd) THEN [d |-> dd, ret |-> DICT_OK]
    ELSE IF dd.ht[0].size = 0 THEN dictExpand(dd, DICT_HT_INITIAL_SIZE)
    ELSE IF dd.ht[0].used >= dd.ht[0].size
            /\ (dict_can_resize
                \/ dd.ht[0].used \div dd.ht[0].size > dict_force_resize_ratio)
         THEN dictExpand(dd, dd.ht[0].used)
         ELSE [d |-> dd, ret |-> DICT_OK]

\* _dictExpandIfNeeded forcing the resize from the ratio 5 on
_dictExpandIfNeeded_FromRatio(dd) ==
    IF dictIsRehashing(dd) THEN [d |-> dd, ret |-> DICT_OK]
    ELSE IF dd.ht[0].size = 0 THEN dictExpand(dd, DICT_HT_INITIAL_SIZE)
    ELSE IF dd.ht[0].used >= dd.ht[0].size
            /\ (dict_can_resize
                \/ dd.ht[0].used \div dd.ht[0].size >= dict_force_resize_ratio)
         THEN dictExpand(dd, dd.ht[0].used * 2)
         ELSE [d |-> dd, ret |-> DICT_OK]

\* _dictExpandIfNeeded: [d, ret]
_dictExpandIfNeeded(dd) ==
    IF dictIsRehashing(dd) THEN [d |-> dd, ret |-> DICT_OK]
    ELSE IF dd.ht[0].size = 0 THEN dictExpand(dd, DICT_HT_INITIAL_SIZE)
    ELSE IF dd.ht[0].used >= dd.ht[0].size
            /\ (dict_can_resize
                \/ dd.ht[0].used \div dd.ht[0].size > dict_force_resize_ratio)
         THEN dictExpand(dd, dd.ht[0].used * 2)
         ELSE [d |-> dd, ret |-> DICT_OK]

\* the chain walk of _dictKeyIndex, dictFind and dictGenericDelete in table t:
\* the place of the entry with this key, or no place
Lookup(dd, key, hash, t) ==
    Let(BitAnd(hash, dd.ht[t].sizemask), LAMBDA idx :
    Let(ChainPos(dd.ht[t].table[idx], key, 1), LAMBDA pos :
        IF pos = 0 THEN NoEntry ELSE <<[t |-> t, idx |-> idx, pos |-> pos]>>))

\* the two-table loop of _dictKeyIndex, dictFind and dictGenericDelete:
\* table 0, then table 1 if a rehash is in progress
LookupBoth(dd, key, hash) ==
    Let(Lookup(dd, key, hash, 0), LAMBDA e0 :
        IF e0 # NoEntry THEN e0
        ELSE IF ~dictIsRehashing(dd) THEN NoEntry
        ELSE Lookup(dd, key, hash, 1))

\* _dictKeyIndex: [d, idx, existing]
_dictKeyIndex(dd, key, hash) ==
    Let(_dictExpandIfNeeded(dd), LAMBDA ex :
        IF ex.ret = DICT_ERR THEN [d |-> ex.d, idx |-> -1, existing |-> NoEntry]
        ELSE Let(LookupBoth(ex.d, key, hash), LAMBDA existing :
                 IF existing # NoEntry
                 THEN [d |-> ex.d, idx |-> -1, existing |-> existing]
                 ELSE [d |-> ex.d,
                       idx |-> BitAnd(hash, ex.d.ht[IF dictIsRehashing(ex.d)
                                                    THEN 1 ELSE 0].sizemask),
                       existing |-> NoEntry]))

\* dictSetVal (the type has no valDup)
dictSetVal(dd, loc, val) ==
    [dd EXCEPT !.ht[loc.t].table[loc.idx][loc.pos].val = val]

\* dictAddRaw always inserting in ht[0]
dictAddRaw_IntoT0(dd, key) ==
    Let(IF dictIsRehashing(dd) THEN _dictRehashStep(dd) ELSE dd, LAMBDA d1 :
    Let(_dictKeyIndex(d1, key, dictHashKey(key)), LAMBDA ki :
    Let(BitAnd(dictHashKey(key), ki.d.ht[0].sizemask), LAMBDA idx :
        IF ki.idx = -1
        THEN [d |-> ki.d, entry |-> NoEntry, existing |-> ki.existing, ev |-> <<>>]
        ELSE [d |-> [ki.d EXCEPT
                        !.ht[0].table[idx] = <<[key |-> key, val |-> UNSET]>> \o @,
                        !.ht[0].used = @ + 1],
              entry |-> <<[t |-> 0, idx |-> idx, pos |-> 1]>>,
              existing |-> NoEntry,
              ev |-> <<Ev("zmalloc", key, UNSET)>>])))

\* dictAddRaw: [d, entry, existing, ev]
dictAddRaw(dd, key) ==
    Let(IF dictIsRehashing(dd) THEN _dictRehashStep(dd) ELSE dd, LAMBDA d1 :
    Let(_dictKeyIndex(d1, key, dictHashKey(key)), LAMBDA ki :
    Let(IF dictIsRehashing(ki.d) THEN 1 ELSE 0, LAMBDA t :
        IF ki.idx = -1
        THEN [d |-> ki.d, entry |-> NoEntry, existing |-> ki.existing, ev |-> <<>>]
        ELSE [d |-> [ki.d EXCEPT
                        !.ht[t].table[ki.idx] = <<[key |-> key, val |-> UNSET]>> \o @,
                        !.ht[t].used = @ + 1],
              entry |-> <<[t |-> t, idx |-> ki.idx, pos |-> 1]>>,
              existing |-> NoEntry,
              ev |-> <<Ev("zmalloc", key, UNSET)>>])))

\* dictAdd: [d, ret, ev]
dictAdd(dd, key, val) ==
    Let(dictAddRaw(dd, key), LAMBDA ar :
        IF ar.entry = NoEntry THEN [d |-> ar.d, ret |-> DICT_ERR, ev |-> ar.ev]
        ELSE [d |-> dictSetVal(ar.d, ar.entry[1], val), ret |-> DICT_OK,
              ev |-> ar.ev \o <<Ev("setVal", key, val)>>])

\* dictReplace freeing the old value before it stores the new one
dictReplace_FreeFirst(dd, key, val) ==
    Let(dictAddRaw(dd, key), LAMBDA ar :
        IF ar.entry # NoEntry
        THEN [d |-> dictSetVal(ar.d, ar.entry[1], val), ret |-> 1,
              ev |-> ar.ev \o <<Ev("setVal", key, val)>>]
        ELSE Let(EntryAt(ar.d, ar.existing[1]), LAMBDA auxentry :
                 [d |-> dictSetVal(ar.d, ar.existing[1], val), ret |-> 0,
                  ev |-> <<Ev("valDestructor", auxentry.key, auxentry.val),
                           Ev("setVal", key, val)>>]))

\* dictReplace: [d, ret, ev]
dictReplace(dd, key, val) ==
    Let(dictAddRaw(dd, key), LAMBDA ar :
        IF ar.entry # NoEntry
        THEN [d |-> dictSetVal(ar.d, ar.entry[1], val), ret |-> 1,
              ev |-> ar.ev \o <<Ev("setVal", key, val)>>]
        ELSE Let(EntryAt(ar.d, ar.existing[1]), LAMBDA auxentry :
                 [d |-> dictSetVal(ar.d, ar.existing[1], val), ret |-> 0,
                  ev |-> <<Ev("setVal", key, val),
                           Ev("valDestructor", auxentry.key, auxentry.val)>>]))

\* dictAddOrFind: [d, entry, ev]
dictAddOrFind(dd, key) ==
    Let(dictAddRaw(dd, key), LAMBDA ar :
        [d |-> ar.d, entry |-> IF ar.entry # NoEntry THEN ar.entry ELSE ar.existing,
         ev |-> ar.ev])

\* dictGenericDelete: [d, he, ev]; he is the removed entry (as it was)
dictGenericDelete(dd, key, nofree) ==
    IF dd.ht[0].used = 0 /\ dd.ht[1].used = 0
    THEN [d |-> dd, he |-> NoEntry, ev |-> <<>>]
    ELSE Let(IF dictIsRehashing(dd) THEN _dictRehashStep(dd) ELSE dd, LAMBDA d1 :
         Let(LookupBoth(d1, key, dictHashKey(key)), LAMBDA found :
             IF found = NoEntry THEN [d |-> d1, he |-> NoEntry, ev |-> <<>>]
             ELSE Let(found[1], LAMBDA loc :
                  Let(EntryAt(d1, loc), LAMBDA he :
                      [d |-> [d1 EXCEPT
                                 !.ht[loc.t].table[loc.idx] = RemoveAt(@, loc.pos),
                                 !.ht[loc.t].used = @ - 1],
                       he |-> <<he>>,
                       ev |-> IF nofree = 0
                              THEN <<Ev("keyDestructor", he.key, he.val),
                                     Ev("valDestructor", he.key, he.val),
                                     Ev("zfree", he.key, he.val)>>
                              ELSE <<>>]))))

\* dictDelete reporting success whatever dictGenericDelete found
dictDelete_AlwaysOk(dd, key) ==
    Let(dictGenericDelete(dd, key, 0), LAMBDA gd :
        [d |-> gd.d, ret |-> DICT_OK, ev |-> gd.ev])

\* dictDelete: [d, ret, ev]
dictDelete(dd, key) ==
    Let(dictGenericDelete(dd, key, 0), LAMBDA gd :
        [d |-> gd.d, ret |-> IF gd.he # NoEntry THEN DICT_OK ELSE DICT_ERR,
         ev |-> gd.ev])

\* dictUnlink freeing the entry as dictDelete does
dictUnlink_Free(dd, key) == dictGenericDelete(dd, key, 0)

\* dictUnlink: [d, he, ev]
dictUnlink(dd, key) == dictGenericDelete(dd, key, 1)

\* dictFreeUnlinkedEntry: the events of releasing a detached entry
dictFreeUnlinkedEntry(he) ==
    IF he = NoEntry THEN <<>>
    ELSE <<Ev("keyDestructor", he[1].key, he[1].val),
           Ev("valDestructor", he[1].key, he[1].val),
           Ev("zfree", he[1].key, he[1].val)>>

\* dictFind looking in ht[0] only
dictFind_FirstTableOnly(dd, key) ==
    IF dd.ht[0].used + dd.ht[1].used = 0 THEN [d |-> dd, he |-> NoEntry]
    ELSE Let(IF dictIsRehashing(dd) THEN _dictRehashStep(dd) ELSE dd, LAMBDA d1 :
             [d |-> d1, he |-> Lookup(d1, key, dictHashKey(key), 0)])

\* dictFind: [d, he]; he is the place of the entry found
dictFind(dd, key) ==
    IF dd.ht[0].used + dd.ht[1].used = 0 THEN [d |-> dd, he |-> NoEntry]
    ELSE Let(IF dictIsRehashing(dd) THEN _dictRehashStep(dd) ELSE dd, LAMBDA d1 :
             [d |-> d1, he |-> LookupBoth(d1, key, dictHashKey(key))])

\* dictFetchValue: the value, as a sequence of length 0 (NULL) or 1
dictFetchValue(dd, key) ==
    Let(dictFind(dd, key), LAMBDA r :
        IF r.he = NoEntry THEN <<>> ELSE <<EntryAt(r.d, r.he[1]).val>>)

\* dictRehashMilliseconds: chunks of 100 steps until the rehash is over or
\* the clock says stop; `chunks` is how many chunks the clock allows (>= 1)
RECURSIVE dictRehashMilliseconds(_, _)
dictRehashMilliseconds(dd, chunks) ==
    Let(dictRehash(dd, 100), LAMBDA r :
        IF r.ret = 0 \/ chunks <= 1 THEN r.d
        ELSE dictRehashMilliseconds(r.d, chunks - 1))

\* dictGetRandomKey: [d, hes]; hes is the set of entries random() can lead
\* to: every entry of a non-empty bucket of the range the loop draws from
RandomPlace(dd, h) ==
    IF dictIsRehashing(dd) /\ h >= dd.ht[0].size
    THEN [t |-> 1, idx |-> h - dd.ht[0].size]
    ELSE [t |-> 0, idx |-> h]

dictGetRandomKey(dd) ==
    IF dictSize(dd) = 0 THEN [d |-> dd, hes |-> {NoEntry}]
    ELSE Let(IF dictIsRehashing(dd) THEN _dictRehashStep(dd) ELSE dd, LAMBDA d1 :
         Let(IF dictIsRehashing(d1)
             THEN d1.rehashidx..(d1.ht[0].size + d1.ht[1].size - 1)
             ELSE 0..d1.ht[0].sizemask, LAMBDA range :
             [d |-> d1,
              hes |-> UNION {
                  {<<[t |-> pl.t, idx |-> pl.idx, pos |-> p]>> :
                      p \in 1..Len(d1.ht[pl.t].table[pl.idx])} :
                  pl \in {RandomPlace(d1, h) : h \in range}}]))

\* dictGetSomeKeys, its rehashing work: `count` single rehash steps at
\* most, count being capped by the number of entries
RECURSIVE SomeKeysRehash(_, _)
SomeKeysRehash(dd, j) ==
    IF j > 0 /\ dictIsRehashing(dd)
    THEN Let(_dictRehashStep(dd), LAMBDA d1 : SomeKeysRehash(d1, j - 1))
    ELSE dd

\* random(): rnd is the sequence of the values it returns to one call of
\* dictGetSomeKeys, the last one returned again once the sequence is used up
Random(rnd, k) == rnd[IF k > Len(rnd) THEN Len(rnd) ELSE k]

\* the local variables of the sampling loop: the index i, emptylen, stored,
\* the entries written to des, and, for the properties, the buckets read
\* <<table, index>>, the number of values taken from random() and the number
\* of passes through the while loop
SomeKeysStart(i) ==
    [i |-> i, emptylen |-> 0, stored |-> 0, des |-> <<>>, reads |-> <<>>,
     draws |-> 1, steps |-> 0]

\* the first `n` entries of bucket i of table j, as dictEntry pointers
SomeKeysCollect(j, i, n) == [pos \in 1..n |-> [t |-> j, idx |-> i, pos |-> pos]]

\* the body of the for loop for table j
SomeKeysVisit(dd, tables, count, maxsizemask, rnd, j, st) ==
    Let(IF tables = 2 /\ j = 0 /\ st.i < dd.rehashidx /\ st.i >= dd.ht[1].size
        THEN dd.rehashidx ELSE st.i, LAMBDA i :
        IF \/ tables = 2 /\ j = 0 /\ st.i < dd.rehashidx /\ st.i < dd.ht[1].size
           \/ i >= dd.ht[j].size
        THEN [st EXCEPT !.i = i]
        ELSE Let(dd.ht[j].table[i], LAMBDA chain :
             IF chain = <<>>
             THEN IF st.emptylen + 1 >= 5 /\ st.emptylen + 1 > count
                  THEN [st EXCEPT !.i = BitAnd(Random(rnd, st.draws + 1), maxsizemask),
                                  !.emptylen = 0, !.draws = @ + 1,
                                  !.reads = Append(@, <<j, i>>)]
                  ELSE [st EXCEPT !.i = i, !.emptylen = @ + 1,
                                  !.reads = Append(@, <<j, i>>)]
             ELSE Let(IF Len(chain) < count - st.stored
                      THEN Len(chain) ELSE count - st.stored, LAMBDA n :
                      [st EXCEPT !.i = i, !.emptylen = 0,
                                 !.reads = Append(@, <<j, i>>),
                                 !.des = @ \o SomeKeysCollect(j, i, n),
                                 !.stored = @ + n])))

\* while (stored < count && maxsteps--); the function returns from inside
\* the loop as soon as stored == count
RECURSIVE SomeKeysLoop(_, _, _, _, _, _, _)
SomeKeysLoop(dd, tables, count, maxsizemask, rnd, st, maxsteps) ==
    IF ~(st.stored < count) \/ maxsteps = 0 THEN st
    ELSE Let(SomeKeysVisit(dd, tables, count, maxsizemask, rnd, 0,
                           [st EXCEPT !.steps = @ + 1]), LAMBDA s0 :
         IF s0.stored = count THEN s0
         ELSE Let(IF tables = 2
                  THEN SomeKeysVisit(dd, tables, count, maxsizemask, rnd, 1, s0)
                  ELSE s0, LAMBDA s1 :
              IF s1.stored = count THEN s1
              ELSE SomeKeysLoop(dd, tables, count, maxsizemask, rnd,
                                [s1 EXCEPT !.i = BitAnd(s1.i + 1, maxsizemask)],
                                maxsteps - 1)))

\* the part of dictGetSomeKeys that follows the cap of count
SomeKeysSample(dd, count, rnd) ==
    Let(SomeKeysRehash(dd, count), LAMBDA d1 :
    Let(IF dictIsRehashing(d1) THEN 2 ELSE 1, LAMBDA tables :
    Let(IF tables > 1 /\ d1.ht[0].sizemask < d1.ht[1].sizemask
        THEN d1.ht[1].sizemask ELSE d1.ht[0].sizemask, LAMBDA maxsizemask :
    Let(SomeKeysLoop(d1, tables, count, maxsizemask, rnd,
                     SomeKeysStart(BitAnd(Random(rnd, 1), maxsizemask)),
                     count * 10), LAMBDA st :
        [d |-> d1, ret |-> st.stored, des |-> st.des, reads |-> st.reads,
         steps |-> st.steps]))))

dictGetSomeKeys_NoCap(dd, count, rnd) == SomeKeysSample(dd, count, rnd)

\* dictGetSomeKeys: [d, ret, des, reads, steps]
dictGetSomeKeys(dd, count, rnd) ==
    SomeKeysSample(dd, IF dictSize(dd) < count THEN dictSize(dd) ELSE count, rnd)

\* ------------------------------------------------------- iterators
\* A dictEntry pointer kept by an iterator across calls is the key of the
\* entry (keys are unique among the entries of the dict); `stale` says that
\* the entry nextEntry points to was unlinked from the dict since, `freed`
\* that the entry dictNext returned last is such an entry, `done` that
\* dictNext has returned NULL, `touched` (ghost, fast iterators) that a call
\* has changed a table pointer, size or used count since the creation.
NoIter ==
    [live |-> FALSE, safe |-> FALSE, table |-> 0, index |-> -1,
     entry |-> <<>>, nextEntry |-> <<>>, fingerprint |-> <<>>, stale |-> FALSE,
     freed |-> FALSE, done |-> FALSE, touched |-> FALSE,
     stay |-> {}, returned |-> {}, twice |-> {}]

\* dictGetIterator / dictGetSafeIterator
dictGetIterator == [NoIter EXCEPT !.live = TRUE]
dictGetSafeIterator == [dictGetIterator EXCEPT !.safe = TRUE]

\* A table pointer as an integer: 0 for NULL.  A bucket array is allocated
\* by dictExpand only, for a table of another size than ht[0] has, and is
\* never resized, so the size stands for the address of a live array.
TablePtr(t) == IF IsNull(t) THEN 0 ELSE t.size

\* dictFingerprint: the six integers it hashes, in its order; the hash is
\* taken to be injective
dictFingerprint(dd) ==
    <<TablePtr(dd.ht[0]), dd.ht[0].size, dd.ht[0].used,
      TablePtr(dd.ht[1]), dd.ht[1].size, dd.ht[1].used>>

\* the place of the entry with this key, wherever it is
PlaceOf(dd, key) ==
    Let(IF dd.ht[0].size > 0 THEN Lookup(dd, key, dictHashKey(key), 0)
        ELSE NoEntry, LAMBDA e0 :
        IF e0 # NoEntry THEN e0
        ELSE IF dd.ht[1].size > 0 THEN Lookup(dd, key, dictHashKey(key), 1)
        ELSE NoEntry)

\* the head of a bucket, as a pointer
BucketHead(dd, t, idx) ==
    IF dd.ht[t].table[idx] = <<>> THEN <<>> ELSE <<dd.ht[t].table[idx][1].key>>

\* entry->next, as a pointer
NextOf(dd, key) ==
    Let(PlaceOf(dd, key)[1], LAMBDA loc :
    Let(dd.ht[loc.t].table[loc.idx], LAMBDA chain :
        IF loc.pos < Len(chain) THEN <<chain[loc.pos + 1].key>> ELSE <<>>))

\* dictNext that stops at the end of ht[0] even during a rehash
NextBucket_StopAtT0(dd, it) ==
    Let(it.index = -1 /\ it.table = 0, LAMBDA first :
    Let(IF first /\ it.safe THEN [dd EXCEPT !.iterators = @ + 1] ELSE dd, LAMBDA d1 :
    Let([it EXCEPT !.fingerprint = IF first /\ ~it.safe
                                   THEN dictFingerprint(dd) ELSE @,
                   !.index = @ + 1], LAMBDA it1 :
        IF it1.index >= d1.ht[it1.table].size
        THEN [d |-> d1, end |-> TRUE,
              it |-> [it1 EXCEPT !.done = TRUE, !.freed = FALSE]]
        ELSE [d |-> d1, end |-> FALSE,
              it |-> [it1 EXCEPT !.entry = BucketHead(d1, it1.table, it1.index)]])))

\* dictNext, the branch taken when iter->entry is NULL: the first call
\* registers a safe iterator (or takes the fingerprint), then the index
\* moves to the next bucket, into ht[1] after the end of ht[0] if a rehash
\* is in progress.  [d, it, end]; end says that the loop breaks.
NextBucket(dd, it) ==
    Let(it.index = -1 /\ it.table = 0, LAMBDA first :
    Let(IF first /\ it.safe THEN [dd EXCEPT !.iterators = @ + 1] ELSE dd, LAMBDA d1 :
    Let([it EXCEPT !.fingerprint = IF first /\ ~it.safe
                                   THEN dictFingerprint(dd) ELSE @,
                   !.index = @ + 1], LAMBDA it1 :
        IF it1.index >= d1.ht[it1.table].size
        THEN IF dictIsRehashing(d1) /\ it1.table = 0
             THEN [d |-> d1, end |-> FALSE,
                   it |-> [it1 EXCEPT !.table = 1, !.index = 0,
                                      !.entry = BucketHead(d1, 1, 0)]]
             ELSE [d |-> d1, end |-> TRUE,
                   it |-> [it1 EXCEPT !.done = TRUE, !.freed = FALSE]]
        ELSE [d |-> d1, end |-> FALSE,
              it |-> [it1 EXCEPT !.entry = BucketHead(d1, it1.table, it1.index)]])))

\* dictNext: [d, it, ret].  `garbage` is what a read of entry->next gives
\* when the entry is one that was unlinked (memory the dict no longer owns).
RECURSIVE dictNext(_, _, _)
dictNext(dd, it, garbage) ==
    Let(IF it.entry = <<>> THEN NextBucket(dd, it)
        ELSE [d |-> dd, end |-> FALSE, it |-> [it EXCEPT !.entry = it.nextEntry]],
        LAMBDA s :
        IF s.end THEN [d |-> s.d, it |-> s.it, ret |-> <<>>]
        ELSE IF s.it.entry = <<>> THEN dictNext(s.d, s.it, garbage)
        ELSE IF it.entry # <<>> /\ it.stale
             THEN [d |-> s.d,
                   it |-> [s.it EXCEPT !.nextEntry = garbage, !.stale = FALSE,
                                       !.freed = TRUE],
                   ret |-> s.it.entry]
             ELSE [d |-> s.d,
                   it |-> [s.it EXCEPT !.nextEntry = NextOf(s.d, s.it.entry[1]),
                                       !.freed = FALSE],
                   ret |-> s.it.entry])

\* dictEmpty: _dictClear frees every entry and the bucket array of both
\* tables and resets them; then rehashidx = -1 and iterators = 0.  (The
\* unsigned long d->iterators is kept as the signed integer with the same
\* bits: -1 stands for ULONG_MAX, what iterators-- makes of 0.)
dictEmpty(dd) ==
    [dd EXCEPT !.ht = [t \in {0, 1} |-> _dictReset], !.rehashidx = -1,
               !.iterators = 0]

\* dictReleaseIterator without the fingerprint assertion
dictReleaseIterator_NoAssert(dd, it) ==
    IF ~(it.index = -1 /\ it.table = 0) /\ it.safe
    THEN [d |-> [dd EXCEPT !.iterators = @ - 1], it |-> NoIter]
    ELSE [d |-> dd, it |-> NoIter]

\* dictReleaseIterator: [d, it]
dictReleaseIterator(dd, it) ==
    IF ~(it.index = -1 /\ it.table = 0)
    THEN IF it.safe THEN [d |-> [dd EXCEPT !.iterators = @ - 1], it |-> NoIter]
         ELSE IF it.fingerprint = dictFingerprint(dd) THEN [d |-> dd, it |-> NoIter]
         ELSE [d |-> [dd EXCEPT !.aborted = TRUE], it |-> NoIter]
    ELSE [d |-> dd, it |-> NoIter]

\* ------------------------------------------------------------ dictScan
\* unsigned long arithmetic on Word bits (no table of the model has more
\* buckets than a word has values)
Word == 2^LogWordBits
WordMax == 2^Word - 1
BitOr(x, y) == x + y - BitAnd(x, y)
BitXor(x, y) == x + y - 2 * BitAnd(x, y)
BitNot(x) == WordMax - x
Shl(x, s) == (x * 2^s) % 2^Word
Shr(x, s) == x \div 2^s

\* rev: the loop halves s and swaps the two halves of every 2s-bit group
RECURSIVE RevLoop(_, _, _)
RevLoop(v, mask, s) ==
    IF s \div 2 = 0 THEN v
    ELSE Let(s \div 2, LAMBDA s1 :
         Let(BitXor(mask, Shl(mask, s1)), LAMBDA m1 :
         Let(BitOr(BitAnd(Shr(v, s1), m1), BitAnd(Shl(v, s1), BitNot(m1))), LAMBDA v1 :
             RevLoop(v1, m1, s1))))

rev(v) == RevLoop(v, WordMax, Word)

\* v |= ~m; v = rev(v); v++; v = rev(v)
ScanInc_Plain(v, m) == BitAnd(v + 1, m)

ScanInc(v, m) ==
    Let(rev(BitOr(v, BitNot(m))), LAMBDA r : rev((r + 1) % 2^Word))

\* the while (de) loop over one bucket: the keys of the entries given to fn
ScanEmit(dd, t, idx) ==
    [i \in 1..Len(dd.ht[t].table[idx]) |-> dd.ht[t].table[idx][i].key]

\* the do ... while loop over the larger table t1
RECURSIVE ScanLarger(_, _, _, _, _)
ScanLarger(dd, t1, v, m0, m1) ==
    Let(BitAnd(v, m1), LAMBDA idx :
    Let(ScanInc(v, m1), LAMBDA v1 :
        IF BitAnd(v1, BitXor(m0, m1)) # 0
        THEN Let(ScanLarger(dd, t1, v1, m0, m1), LAMBDA r :
                 [v |-> r.v, fn |-> ScanEmit(dd, t1, idx) \o r.fn,
                  buckets |-> <<<<t1, idx>>>> \o r.buckets])
        ELSE [v |-> v1, fn |-> ScanEmit(dd, t1, idx), buckets |-> <<<<t1, idx>>>>]))

\* "Make sure t0 is the smaller and t1 is the bigger table"
ScanSmaller_Always0(dd) == 0

ScanSmaller(dd) == IF dd.ht[0].size > dd.ht[1].size THEN 1 ELSE 0

\* dictScan: the cursor returned, the keys of the entries given to fn and
\* the buckets visited <<table, index>>, both in program order
dictScan(dd, v) ==
    IF dictSize(dd) = 0 THEN [v |-> 0, fn |-> <<>>, buckets |-> <<>>]
    ELSE IF ~dictIsRehashing(dd)
    THEN Let(dd.ht[0].sizemask, LAMBDA m0 :
             [v |-> ScanInc(v, m0), fn |-> ScanEmit(dd, 0, BitAnd(v, m0)),
              buckets |-> <<<<0, BitAnd(v, m0)>>>>])
    ELSE Let(ScanSmaller(dd), LAMBDA t0 :
         Let(dd.ht[t0].sizemask, LAMBDA m0 :
         Let(ScanLarger(dd, 1 - t0, v, m0, dd.ht[1 - t0].sizemask), LAMBDA r :
             [v |-> r.v, fn |-> ScanEmit(dd, t0, BitAnd(v, m0)) \o r.fn,
              buckets |-> <<<<t0, BitAnd(v, m0)>>>> \o r.buckets])))

\* the caller's cursor, 0 before a traversal and after it.  Ghost: `size`
\* is the size of ht[0] when the traversal began, `stay` the keys that
\* have been in the dict since then, `pending` those of them not yet
\* given to fn.
NoScan == [cursor |-> 0, active |-> FALSE, size |-> 0, stay |-> {}, pending |-> {}]

\* ------------------------------------------------------ background jobs
\* The job kinds, the threads and the lists of adlist.h.  A job is the
\* record [id]: the jobs are numbered as they are created, and id stands
\* for the address of the bio_job (and of its list node) and for its
\* arguments.
Kinds == 0..(NumKinds - 1)
MAIN == "main"
BIO == "bio"
FREE == "free"

listCreate == <<>>
listLength(list) == Len(list)
listAddNodeHead(list, value) == <<value>> \o list
listAddNodeTail(list, value) == Append(list, value)
listFirst(list) == list[1]
listDelNode(list, node) == SelectSeq(list, LAMBDA n : n # node)

\* bio_pending[type]-- after a job
PendingAfterJob_Kept(n) == n
PendingAfterJob(n) == n - 1

\* a thread: where it is (pc) and its local variables
NoJob == [id |-> 0]
NewThread == [pc |-> "start", ln |-> NoJob]
Idle == [pc |-> "idle", type |-> 0, job |-> NoJob, waited |-> FALSE, mark |-> 0]

\* ------------------------------------------------------------ zmalloc
\* The build without HAVE_MALLOC_SIZE on an LP64 system: zmalloc keeps the
\* size asked for in a size_t in front of the block (PREFIX_SIZE bytes).
\* malloc, calloc and realloc succeed; the block they return is any block
\* not in use.
SIZEOF_LONG == 8
PREFIX_SIZE == 8
NULL == 0
Unallocated == -1
Ptrs == 1..MaxBlocks
AllocSizes == 0..MaxSize

\* the local _n of the two macros: __n, with
\* if (_n&(sizeof(long)-1)) _n += sizeof(long)-(_n&(sizeof(long)-1))
StatRounded(n) ==
    IF BitAnd(n, SIZEOF_LONG - 1) # 0
    THEN n + SIZEOF_LONG - BitAnd(n, SIZEOF_LONG - 1)
    ELSE n

\* update_zmalloc_stat_alloc(__n): _n is computed, atomicIncr adds __n
update_zmalloc_stat_alloc(z, n) ==
    Let(StatRounded(n), LAMBDA _n :
        [z EXCEPT !.used_memory = @ + n])

\* update_zmalloc_stat_free(__n): _n is computed, atomicDecr subtracts __n
update_zmalloc_stat_free(z, n) ==
    Let(StatRounded(n), LAMBDA _n :
        [z EXCEPT !.used_memory = @ - n])

\* zmalloc, with ptr the block malloc returns: the heap after it
zmalloc(z, ptr, size) ==
    update_zmalloc_stat_alloc([z EXCEPT !.header[ptr] = size], size + PREFIX_SIZE)

\* zcalloc
zcalloc(z, ptr, size) ==
    update_zmalloc_stat_alloc([z EXCEPT !.header[ptr] = size], size + PREFIX_SIZE)

\* zrealloc of a block that is not NULL
zrealloc(z, ptr, size) ==
    Let(z.header[ptr], LAMBDA oldsize :
    Let([z EXCEPT !.header[ptr] = size], LAMBDA z1 :
    Let(update_zmalloc_stat_free(z1, oldsize + PREFIX_SIZE), LAMBDA z2 :
        update_zmalloc_stat_alloc(z2, size + PREFIX_SIZE))))

\* zfree
zfree(z, ptr) ==
    IF ptr = NULL THEN z
    ELSE Let(z.header[ptr], LAMBDA oldsize :
         Let(update_zmalloc_stat_free(z, oldsize + PREFIX_SIZE), LAMBDA z1 :
             [z1 EXCEPT !.header[ptr] = Unallocated]))

\* ------------------------------------------- the allocator's callers
\* The main thread and the background workers call the allocator side by
\* side (a worker frees what the main thread allocated).  A call is the
\* steps of its code: the C library hands out, resizes or takes back the
\* block, and each update_zmalloc_stat_* is one atomicIncr or atomicDecr of
\* used_memory.  A thread is where it stands in its call: the block, the
\* updates still to make and what it last saw of the counter.
Threads == {MAIN, BIO}
IdleThread == [pc |-> "idle", op |-> "", ptr |-> NULL, todo |-> <<>>, loaded |-> 0]
Incr(n) == [dir |-> "incr", n |-> n]
Decr(n) == [dir |-> "decr", n |-> n]

\* atomicIncr(var,count) and atomicDecr(var,count) of atomicvar.h: the
\* addition is one indivisible step on the counter as it is at that very
\* moment; what the thread saw of it earlier (loaded) takes no part
atomicIncr_LoadThenStore(var, loaded, count) == loaded + count
atomicIncr(var, loaded, count) == var + count
atomicDecr(var, loaded, count) == var - count

\* the counter after the update u of a thread that saw it as loaded
StatUpdate(var, loaded, u) ==
    IF u.dir = "incr" THEN atomicIncr(var, loaded, u.n)
    ELSE atomicDecr(var, loaded, u.n)

\* --------------------------------------------------------------- RDB
\* rdb.h is not among the sources; its constants have the values of the
\* file format.  The stream behind a rio is the sequence of its bytes; a
\* read of n bytes fails when fewer are left.
RDB_6BITLEN == 0
RDB_14BITLEN == 1
RDB_32BITLEN == 128
RDB_64BITLEN == 129
RDB_ENCVAL == 3
RDB_ENC_INT8 == 0
RDB_ENC_INT16 == 1
RDB_ENC_INT32 == 2
RDB_ENC_LZF == 3

Zeros(n) == [i \in 1..n |-> 0]

\* A uint64_t is kept as its 8 bytes, the most significant first (the
\* order htonu64 gives them); U64(n) is the uint64_t of a number below 2^31.
U64(n) ==
    <<0, 0, 0, 0, (n \div 16777216) % 256, (n \div 65536) % 256,
      (n \div 256) % 256, n % 256>>
U64Fits(u) == SubSeq(u, 1, 4) = Zeros(4) /\ u[5] < 128
U64Value(u) == u[5] * 16777216 + u[6] * 65536 + u[7] * 256 + u[8]

\* UINT64_MAX
RDB_LENERR == [i \in 1..8 |-> 255]

\* rdbSaveLen writing the two bytes of a 14 bit length in the other order
rdbSaveLen_LowFirst(len) ==
    IF SubSeq(len, 1, 7) = Zeros(7) /\ len[8] < 64
    THEN <<BitOr(BitAnd(len[8], 255), RDB_6BITLEN * 64)>>
    ELSE IF SubSeq(len, 1, 6) = Zeros(6) /\ len[7] < 64
    THEN <<BitOr(BitAnd(len[8], 63), RDB_14BITLEN * 64), BitAnd(len[7], 255)>>
    ELSE IF SubSeq(len, 1, 4) = Zeros(4)
    THEN <<RDB_32BITLEN>> \o SubSeq(len, 5, 8)
    ELSE <<RDB_64BITLEN>> \o len

\* rdbSaveLen: the bytes written (a failed write is the caller's matter)
rdbSaveLen(len) ==
    IF SubSeq(len, 1, 7) = Zeros(7) /\ len[8] < 64
    THEN <<BitOr(BitAnd(len[8], 255), RDB_6BITLEN * 64)>>
    ELSE IF SubSeq(len, 1, 6) = Zeros(6) /\ len[7] < 64
    THEN <<BitOr(BitAnd(len[7], 255), RDB_14BITLEN * 64), BitAnd(len[8], 255)>>
    ELSE IF SubSeq(len, 1, 4) = Zeros(4)
    THEN <<RDB_32BITLEN>> \o SubSeq(len, 5, 8)
    ELSE <<RDB_64BITLEN>> \o len

\* what is left of stream s after n bytes
Skip(s, n) == SubSeq(s, n + 1, Len(s))

\* rdbLoadLenByRef: [ret, isencoded, len, rest, exit], rest the stream after
\* the bytes read, exit set when rdbExitReportCorruptRDB ends the process
LenErr(s) == [ret |-> -1, isencoded |-> 0, len |-> Zeros(8), rest |-> s, exit |-> FALSE]
LenOk(isencoded, len, rest) ==
    [ret |-> 0, isencoded |-> isencoded, len |-> len, rest |-> rest, exit |-> FALSE]

rdbLoadLenByRef(s) ==
    IF Len(s) < 1 THEN LenErr(s)
    ELSE Let(s[1] \div 64, LAMBDA type :
        IF type = RDB_ENCVAL THEN LenOk(1, U64(BitAnd(s[1], 63)), Skip(s, 1))
        ELSE IF type = RDB_6BITLEN THEN LenOk(0, U64(BitAnd(s[1], 63)), Skip(s, 1))
        ELSE IF type = RDB_14BITLEN
        THEN IF Len(s) < 2 THEN LenErr(Skip(s, 1))
             ELSE LenOk(0, Zeros(6) \o <<BitAnd(s[1], 63), s[2]>>, Skip(s, 2))
        ELSE IF s[1] = RDB_32BITLEN
        THEN IF Len(s) < 5 THEN LenErr(Skip(s, 1))
             ELSE LenOk(0, Zeros(4) \o SubSeq(s, 2, 5), Skip(s, 5))
        ELSE IF s[1] = RDB_64BITLEN
        THEN IF Len(s) < 9 THEN LenErr(Skip(s, 1))
             ELSE LenOk(0, SubSeq(s, 2, 9), Skip(s, 9))
        ELSE [LenErr(Skip(s, 1)) EXCEPT !.exit = TRUE])

\* rdbLoadLen: [len, isencoded, rest, exit], len = RDB_LENERR on error
rdbLoadLen(s) ==
    Let(rdbLoadLenByRef(s), LAMBDA r :
        [len |-> IF r.ret = -1 THEN RDB_LENERR ELSE r.len,
         isencoded |-> r.isencoded, rest |-> r.rest, exit |-> r.exit])

\* ---- strings and integers of the string codec
\* A string is the sequence of its bytes; CharAt gives the byte a C string
\* has at position i, the terminating NUL past its end (the strings saved
\* are sds strings, which always carry one).
CharAt(s, i) == IF i <= Len(s) THEN s[i] ELSE 0
IsSpace(c) == c \in {9, 10, 11, 12, 13, 32}
IsDigit(c) == c \in 48..57

\* A long long is kept as its sign and the decimal digits of its magnitude
\* (no leading zero), since strtoll of 11 characters passes 2^31.
LLOf(neg, mag) == [neg |-> neg /\ mag # <<0>>, mag |-> mag]

RECURSIVE StripZeros(_)
StripZeros(m) == IF Len(m) > 1 /\ m[1] = 0 THEN StripZeros(Tail(m)) ELSE m

\* the digits of |n|, for n <= 0 (n itself may be -2^31)
RECURSIVE NegDigits(_)
NegDigits(n) ==
    Let((10 - (n % 10)) % 10, LAMBDA low :
        IF n > -10 THEN <<low>> ELSE Append(NegDigits((n + low) \div 10), low))

\* the long long of an int32_t
LL(n) == LLOf(n < 0, NegDigits(IF n < 0 THEN n ELSE -n))

MagLess(a, b) ==
    \/ Len(a) < Len(b)
    \/ /\ Len(a) = Len(b)
       /\ \E i \in 1..Len(a) :
            a[i] < b[i] /\ \A j \in 1..(i - 1) : a[j] = b[j]

\* a <= b
LLLeq(a, b) ==
    IF a.neg /\ ~b.neg THEN TRUE
    ELSE IF ~a.neg /\ b.neg THEN FALSE
    ELSE IF a.neg THEN ~MagLess(a.mag, b.mag)
    ELSE ~MagLess(b.mag, a.mag)

INT32_MIN == -2147483647 - 1
INT32_MAX == 2147483647

\* the int32_t of a long long within [INT32_MIN, INT32_MAX]
RECURSIVE NegValue(_)
NegValue(mag) ==
    IF mag = <<>> THEN 0
    ELSE NegValue(SubSeq(mag, 1, Len(mag) - 1)) * 10 - mag[Len(mag)]
Int32Of(v) == IF v.neg THEN NegValue(v.mag) ELSE -NegValue(v.mag)

\* strtoll(s, &endptr, 10): [value, endptr], endptr the position where the
\* conversion stopped (1, the start of s, when s holds no number).  The
\* strings converted have at most 11 characters, so the value never
\* reaches LLONG_MAX.
RECURSIVE SkipSpace(_, _)
SkipSpace(s, i) == IF IsSpace(CharAt(s, i)) THEN SkipSpace(s, i + 1) ELSE i
RECURSIVE DigitsEnd(_, _)
DigitsEnd(s, i) == IF IsDigit(CharAt(s, i)) THEN DigitsEnd(s, i + 1) ELSE i

strtoll(s) ==
    Let(SkipSpace(s, 1), LAMBDA i :
    Let(IF CharAt(s, i) \in {43, 45} THEN i + 1 ELSE i, LAMBDA j :
    Let(DigitsEnd(s, j), LAMBDA k :
        IF k = j THEN [value |-> LL(0), endptr |-> 1]
        ELSE [value |-> LLOf(CharAt(s, i) = 45,
                             StripZeros([x \in 1..(k - j) |-> s[j + x - 1] - 48])),
              endptr |-> k])))

\* ll2string: the decimal text of a long long
ll2string(value) ==
    (IF value.neg THEN <<45>> ELSE <<>>)
        \o [i \in 1..Len(value.mag) |-> value.mag[i] + 48]

\* (value >> (8*i)) & 0xFF of an int32_t
ByteOf(n, i) ==
    (n \div (IF i = 0 THEN 1 ELSE IF i = 1 THEN 256
             ELSE IF i = 2 THEN 65536 ELSE 16777216)) % 256

InRange(value, lo, hi) == LLLeq(LL(lo), value) /\ LLLeq(value, LL(hi))

\* rdbEncodeInteger taking 128 for an 8 bit value
rdbEncodeInteger_Wide8(value) ==
    IF InRange(value, -128, 128)
    THEN <<BitOr(RDB_ENCVAL * 64, RDB_ENC_INT8), ByteOf(Int32Of(value), 0)>>
    ELSE IF InRange(value, -32768, 32767)
    THEN Let(Int32Of(value), LAMBDA n :
        <<BitOr(RDB_ENCVAL * 64, RDB_ENC_INT16), ByteOf(n, 0), ByteOf(n, 1)>>)
    ELSE IF InRange(value, INT32_MIN, INT32_MAX)
    THEN Let(Int32Of(value), LAMBDA n :
        <<BitOr(RDB_ENCVAL * 64, RDB_ENC_INT32),
          ByteOf(n, 0), ByteOf(n, 1), ByteOf(n, 2), ByteOf(n, 3)>>)
    ELSE <<>>

\* rdbEncodeInteger: the bytes of enc, none when it returns 0
rdbEncodeInteger(value) ==
    IF InRange(value, -128, 127)
    THEN <<BitOr(RDB_ENCVAL * 64, RDB_ENC_INT8), ByteOf(Int32Of(value), 0)>>
    ELSE IF InRange(value, -32768, 32767)
    THEN Let(Int32Of(value), LAMBDA n :
        <<BitOr(RDB_ENCVAL * 64, RDB_ENC_INT16), ByteOf(n, 0), ByteOf(n, 1)>>)
    ELSE IF InRange(value, INT32_MIN, INT32_MAX)
    THEN Let(Int32Of(value), LAMBDA n :
        <<BitOr(RDB_ENCVAL * 64, RDB_ENC_INT32),
          ByteOf(n, 0), ByteOf(n, 1), ByteOf(n, 2), ByteOf(n, 3)>>)
    ELSE <<>>

\* rdbTryIntegerEncoding
rdbTryIntegerEncoding(s) ==
    Let(strtoll(s), LAMBDA r :
        IF CharAt(s, r.endptr) # 0 THEN <<>>
        ELSE IF ll2string(r.value) # s THEN <<>>
        ELSE rdbEncodeInteger(r.value))

\* rdbSaveRawString: the bytes written.  The strings saved have at most 20
\* bytes, which rdbSaveRawString never hands to the LZF compressor.
rdbSaveRawString(s) ==
    Let(IF Len(s) <= 11 THEN rdbTryIntegerEncoding(s) ELSE <<>>, LAMBDA enc :
        IF Len(enc) > 0 THEN enc ELSE rdbSaveLen(U64(Len(s))) \o s)

\* (signed char), (int16_t) and (int32_t) of the bytes read; a byte with
\* the top bit set shifted by 24 gives the two's complement value (what
\* gcc and clang define for that shift)
SignedByte(b) == IF b >= 128 THEN b - 256 ELSE b

RDB_LOAD_NONE == 0
RDB_LOAD_ENC == 1
RDB_LOAD_PLAIN == 2
RDB_LOAD_SDS == 4
LoadFlags == {RDB_LOAD_NONE, RDB_LOAD_ENC, RDB_LOAD_PLAIN, RDB_LOAD_SDS}

\* what a load returns: [ok, str, rest, exit]; ok FALSE is the NULL return,
\* exit the end of the process in rdbExitReportCorruptRDB, str the bytes of
\* the buffer, sds or string object returned
StrNull(rest) == [ok |-> FALSE, str |-> <<>>, rest |-> rest, exit |-> FALSE]
StrExit(rest) == [ok |-> FALSE, str |-> <<>>, rest |-> rest, exit |-> TRUE]
StrOk(str, rest) == [ok |-> TRUE, str |-> str, rest |-> rest, exit |-> FALSE]

\* rdbLoadIntegerObject: buffer, sds, integer object and string object all
\* hold the decimal text of val
rdbLoadIntegerObject(s, enctype, flags) ==
    IF enctype = RDB_ENC_INT8
    THEN IF Len(s) < 1 THEN StrNull(s)
         ELSE StrOk(ll2string(LL(SignedByte(s[1]))), Skip(s, 1))
    ELSE IF enctype = RDB_ENC_INT16
    THEN IF Len(s) < 2 THEN StrNull(s)
         ELSE StrOk(ll2string(LL(s[1] + SignedByte(s[2]) * 256)), Skip(s, 2))
    ELSE IF enctype = RDB_ENC_INT32
    THEN IF Len(s) < 4 THEN StrNull(s)
         ELSE StrOk(ll2string(LL(s[1] + s[2] * 256 + s[3] * 65536
                                  + SignedByte(s[4]) * 16777216)), Skip(s, 4))
    ELSE StrExit(s)

\* rdbGenericLoadStringObject (an LZF string ends the model's load like an
\* unknown encoding: the model saves none)
rdbGenericLoadStringObject(s, flags) ==
    Let(rdbLoadLen(s), LAMBDA r :
        IF r.exit THEN StrExit(r.rest)
        ELSE IF r.isencoded = 1
        THEN IF U64Value(r.len) \in {RDB_ENC_INT8, RDB_ENC_INT16, RDB_ENC_INT32}
             THEN rdbLoadIntegerObject(r.rest, U64Value(r.len), flags)
             ELSE StrExit(r.rest)
        ELSE IF r.len = RDB_LENERR THEN StrNull(r.rest)
        ELSE IF ~U64Fits(r.len) \/ Len(r.rest) < U64Value(r.len) THEN StrNull(r.rest)
        ELSE StrOk(SubSeq(r.rest, 1, U64Value(r.len)), Skip(r.rest, U64Value(r.len))))

\* ---- rdbSaveRio and rdbLoadRio
RDB_VERSION == 9
RDB_TYPE_STRING == 0
RDB_OPCODE_MODULE_AUX == 247
RDB_OPCODE_IDLE == 248
RDB_OPCODE_FREQ == 249
RDB_OPCODE_AUX == 250
RDB_OPCODE_RESIZEDB == 251
RDB_OPCODE_EXPIRETIME_MS == 252
RDB_OPCODE_EXPIRETIME == 253
RDB_OPCODE_SELECTDB == 254
RDB_OPCODE_EOF == 255
MAXMEMORY_FLAG_LRU == 1
MAXMEMORY_FLAG_LFU == 2
C_OK == 0
C_ERR == -1
EINVAL == 22

\* An int64_t is kept as its 8 bytes, the least significant first (the
\* order memrev64ifbe stores them); Int64(n) is the int64_t of an int32_t.
Int64(n) == [i \in 1..8 |-> IF i <= 4 THEN ByteOf(n, i - 1) ELSE IF n < 0 THEN 255 ELSE 0]
\* a < b for two int64_t
Int64Less(a, b) ==
    IF (a[8] >= 128) # (b[8] >= 128) THEN a[8] >= 128
    ELSE \E i \in 1..8 : a[i] < b[i] /\ \A j \in (i + 1)..8 : a[j] = b[j]
\* a * k modulo 2^64, for 0 < k < 2^16
RECURSIVE Int64Times(_, _, _)
Int64Times(a, k, carry) ==
    IF a = <<>> THEN <<>>
    ELSE <<(a[1] * k + carry) % 256>>
            \o Int64Times(Tail(a), k, (a[1] * k + carry) \div 256)

\* rioGenericUpdateChecksum from the first byte on: the checksum of the
\* stream s.  crc64 stands for a function of the bytes that changes when
\* one of them changes (a sum weighted by position, modulo a prime).
RECURSIVE WeightedSum(_, _, _)
WeightedSum(s, lo, hi) ==
    IF lo > hi THEN 0
    ELSE IF lo = hi THEN ((s[lo] + 1) * lo) % 65521
    ELSE (WeightedSum(s, lo, (lo + hi) \div 2)
          + WeightedSum(s, (lo + hi) \div 2 + 1, hi)) % 65521
crc64(s) == WeightedSum(s, 1, Len(s))
\* the 8 bytes of a checksum, the least significant first
CksumBytes(crc) == <<crc % 256, crc \div 256, 0, 0, 0, 0, 0, 0>>

rdbSaveType(type) == <<type>>
rdbSaveMillisecondTime(t) == Int64(t)

\* rdbSaveKeyValuePair writing the idle time in milliseconds
rdbSaveKeyValuePair_IdleMs(maxmemory_policy, e) ==
    (IF e.expire # -1
     THEN rdbSaveType(RDB_OPCODE_EXPIRETIME_MS) \o rdbSaveMillisecondTime(e.expire)
     ELSE <<>>)
    \o (IF BitAnd(maxmemory_policy, MAXMEMORY_FLAG_LRU) # 0
        THEN rdbSaveType(RDB_OPCODE_IDLE) \o rdbSaveLen(U64(e.idle))
        ELSE <<>>)
    \o (IF BitAnd(maxmemory_policy, MAXMEMORY_FLAG_LFU) # 0
        THEN rdbSaveType(RDB_OPCODE_FREQ) \o <<e.freq>>
        ELSE <<>>)
    \o rdbSaveType(RDB_TYPE_STRING)
    \o rdbSaveRawString(e.key)
    \o rdbSaveRawString(e.val)

\* rdbSaveKeyValuePair.  An entry is [key, val, expire, idle, freq]: the
\* key and the text of its string value, what getExpire gives (-1 for none),
\* what estimateObjectIdleTime gives (milliseconds) and what
\* LFUDecrAndReturn gives for the value.
rdbSaveKeyValuePair(maxmemory_policy, e) ==
    (IF e.expire # -1
     THEN rdbSaveType(RDB_OPCODE_EXPIRETIME_MS) \o rdbSaveMillisecondTime(e.expire)
     ELSE <<>>)
    \o (IF BitAnd(maxmemory_policy, MAXMEMORY_FLAG_LRU) # 0
        THEN rdbSaveType(RDB_OPCODE_IDLE) \o rdbSaveLen(U64(e.idle \div 1000))
        ELSE <<>>)
    \o (IF BitAnd(maxmemory_policy, MAXMEMORY_FLAG_LFU) # 0
        THEN rdbSaveType(RDB_OPCODE_FREQ) \o <<e.freq>>
        ELSE <<>>)
    \o rdbSaveType(RDB_TYPE_STRING)
    \o rdbSaveRawString(e.key)
    \o rdbSaveRawString(e.val)

rdbSaveAuxField(key, val) ==
    rdbSaveType(RDB_OPCODE_AUX) \o rdbSaveRawString(key) \o rdbSaveRawString(val)

\* rdbSaveInfoAuxFields outside an AOF rewrite: "redis-ver", "redis-bits",
\* "ctime", "used-mem", with replication information (rsi not NULL, here a
\* sequence of length 1) "repl-stream-db", "repl-id", "repl-offset", and
\* "aof-preamble"
REDIS_VERSION == <<53, 46, 48, 46, 53>>
rdbSaveInfoAuxFields(ctime, used_mem, rsi) ==
    rdbSaveAuxField(<<114, 101, 100, 105, 115, 45, 118, 101, 114>>, REDIS_VERSION)
    \o rdbSaveAuxField(<<114, 101, 100, 105, 115, 45, 98, 105, 116, 115>>,
                       ll2string(LL(64)))
    \o rdbSaveAuxField(<<99, 116, 105, 109, 101>>, ll2string(LL(ctime)))
    \o rdbSaveAuxField(<<117, 115, 101, 100, 45, 109, 101, 109>>,
                       ll2string(LL(used_mem)))
    \o (IF rsi # <<>>
        THEN rdbSaveAuxField(<<114, 101, 112, 108, 45, 115, 116, 114, 101, 97,
                               109, 45, 100, 98>>,
                             ll2string(LL(rsi[1].repl_stream_db)))
             \o rdbSaveAuxField(<<114, 101, 112, 108, 45, 105, 100>>, rsi[1].replid)
             \o rdbSaveAuxField(<<114, 101, 112, 108, 45, 111, 102, 102, 115, 101,
                                  116>>,
                                ll2string(LL(rsi[1].master_repl_offset)))
        ELSE <<>>)
    \o rdbSaveAuxField(<<97, 111, 102, 45, 112, 114, 101, 97, 109, 98, 108, 101>>,
                       ll2string(LL(0)))

\* the entries of one database in the order its iterator gives them
RECURSIVE SaveEntries(_, _)
SaveEntries(maxmemory_policy, entries) ==
    IF entries = <<>> THEN <<>>
    ELSE rdbSaveKeyValuePair(maxmemory_policy, Head(entries))
            \o SaveEntries(maxmemory_policy, Tail(entries))

\* the number of entries of a database that carry an expire time
RECURSIVE ExpiresSize(_)
ExpiresSize(entries) ==
    IF entries = <<>> THEN 0
    ELSE (IF Head(entries).expire # -1 THEN 1 ELSE 0) + ExpiresSize(Tail(entries))

\* databases j.. of rdbSaveRio's loop (db[j + 1] is server.db[j])
RECURSIVE SaveDbs(_, _, _)
SaveDbs(maxmemory_policy, db, j) ==
    IF j >= Len(db) THEN <<>>
    ELSE (IF Len(db[j + 1]) = 0 THEN <<>>
          ELSE rdbSaveType(RDB_OPCODE_SELECTDB) \o rdbSaveLen(U64(j))
               \o rdbSaveType(RDB_OPCODE_RESIZEDB)
               \o rdbSaveLen(U64(Len(db[j + 1])))
               \o rdbSaveLen(U64(ExpiresSize(db[j + 1])))
               \o SaveEntries(maxmemory_policy, db[j + 1]))
         \o SaveDbs(maxmemory_policy, db, j + 1)

\* "REDIS%04d"
Magic(version) ==
    <<82, 69, 68, 73, 83>>
        \o [i \in 1..4 |->
              48 + ((version \div (IF i = 1 THEN 1000 ELSE IF i = 2 THEN 100
                                   ELSE IF i = 3 THEN 10 ELSE 1)) % 10)]

\* the script cache: one "lua" field per script body
RECURSIVE SaveScripts(_)
SaveScripts(scripts) ==
    IF scripts = <<>> THEN <<>>
    ELSE rdbSaveAuxField(<<108, 117, 97>>, Head(scripts)) \o SaveScripts(Tail(scripts))

\* rdbSaveRio writing the script cache before the databases
rdbSaveRio_ScriptsFirst(sv, room) ==
    Let(Magic(RDB_VERSION)
            \o rdbSaveInfoAuxFields(sv.ctime, sv.used_mem, sv.rsi)
            \o (IF sv.rsi # <<>> /\ Len(sv.lua_scripts) # 0
                THEN SaveScripts(sv.lua_scripts) ELSE <<>>)
            \o SaveDbs(sv.maxmemory_policy, sv.db, 0)
            \o rdbSaveType(RDB_OPCODE_EOF), LAMBDA body :
    Let(body \o CksumBytes(IF sv.rdb_checksum THEN crc64(body) ELSE 0), LAMBDA all :
        IF Len(all) <= room THEN [ret |-> C_OK, file |-> all]
        ELSE [ret |-> C_ERR, file |-> SubSeq(all, 1, room)]))

\* rdbSaveRio of the server sv = [maxmemory_policy, rdb_checksum, db, ctime,
\* used_mem, rsi, lua_scripts] into a stream that takes `room` bytes:
\* [ret, file].  A write that does not fit fails, and rdbSaveRio returns
\* C_ERR at the first failed write with what was written before it in the
\* stream.
rdbSaveRio(sv, room) ==
    Let(Magic(RDB_VERSION)
            \o rdbSaveInfoAuxFields(sv.ctime, sv.used_mem, sv.rsi)
            \o SaveDbs(sv.maxmemory_policy, sv.db, 0)
            \o (IF sv.rsi # <<>> /\ Len(sv.lua_scripts) # 0
                THEN SaveScripts(sv.lua_scripts) ELSE <<>>)
            \o rdbSaveType(RDB_OPCODE_EOF), LAMBDA body :
    Let(body \o CksumBytes(IF sv.rdb_checksum THEN crc64(body) ELSE 0), LAMBDA all :
        IF Len(all) <= room THEN [ret |-> C_OK, file |-> all]
        ELSE [ret |-> C_ERR, file |-> SubSeq(all, 1, room)]))

\* ---- rdbLoadRio
\* The state of the loop of rdbLoadRio: the database selected, the
\* attributes set by the opcodes before a key (expiretime an int64_t,
\* lru_idle the 8 bytes of the uint64_t assigned to it, -1 being all 0xFF
\* in both) and, per database, the calls made for the keys added: each
\* [key, val, expire, lru_idle, lfu_freq] is one dbAdd(db,key,val), the
\* setExpire(NULL,db,key,expire) made when expire is not -1 and
\* objectSetLRUOrLFU(val,lfu_freq,lru_idle,lru_clock).
MinusOne == [i \in 1..8 |-> 255]
LoadStart(dbnum) ==
    [dbid |-> 0, expiretime |-> MinusOne, lru_idle |-> MinusOne, lfu_freq |-> -1,
     db |-> [j \in 1..dbnum |-> <<>>]]

\* how rdbLoadRio ends: it returns ret (errno set on C_ERR), or the process
\* exits (exit(1) directly, or in rdbCheckThenExit)
Returned(ret, errno, st) ==
    [next |-> FALSE, ret |-> ret, errno |-> errno, exit |-> FALSE, why |-> "",
     db |-> st.db]
Exited(why, st) ==
    [next |-> FALSE, ret |-> C_ERR, errno |-> 0, exit |-> TRUE, why |-> why,
     db |-> st.db]
Continue(s, st) == [next |-> TRUE, s |-> s, st |-> st]
Eoferr(st) == Exited("Unexpected EOF reading RDB file", st)

\* the int64_t of the int32_t whose 4 bytes are s (rdbLoadTime)
SignExtend(s) == s \o [i \in 1..4 |-> IF s[4] >= 128 THEN 255 ELSE 0]

\* the key and the value loaded: the key was read, the value follows in s
AddKey(st, cfg, key, val) ==
    IF cfg.masterhost = NULL /\ ~cfg.loading_aof
       /\ st.expiretime # MinusOne /\ Int64Less(st.expiretime, cfg.now)
    THEN st.db
    ELSE [st.db EXCEPT ![st.dbid + 1] =
            Append(@, [key |-> key, val |-> val, expire |-> st.expiretime,
                       lru_idle |-> st.lru_idle, lfu_freq |-> st.lfu_freq])]

\* the reset after a key that leaves the idle time as it is
ResetKeyState_KeepIdle(st) ==
    [st EXCEPT !.expiretime = MinusOne, !.lfu_freq = -1]

\* the state set by the opcodes before a key starts from scratch again
ResetKeyState(st) ==
    [st EXCEPT !.expiretime = MinusOne, !.lfu_freq = -1, !.lru_idle = MinusOne]

\* the checksum check taking a wrong checksum for a warning
LoadChecksum_WarnOnly(file, s, st, cfg, rdbver) ==
    IF rdbver < 5 THEN Returned(C_OK, 0, st)
    ELSE IF Len(s) < 8 THEN Eoferr(st)
    ELSE Returned(C_OK, 0, st)

\* the checksum check that ends rdbLoadRio: s is what follows the EOF opcode
LoadChecksum(file, s, st, cfg, rdbver) ==
    IF rdbver < 5 THEN Returned(C_OK, 0, st)
    ELSE IF Len(s) < 8 THEN Eoferr(st)
    ELSE IF ~cfg.rdb_checksum THEN Returned(C_OK, 0, st)
    ELSE IF SubSeq(s, 1, 8) = Zeros(8) THEN Returned(C_OK, 0, st)
    ELSE IF SubSeq(s, 1, 8) # CksumBytes(crc64(SubSeq(file, 1, Len(file) - Len(s))))
    THEN Exited("RDB CRC error", st)
    ELSE Returned(C_OK, 0, st)

\* One turn of the while(1) of rdbLoadRio: how rdbLoadRio ends, or the
\* stream and the state the next turn starts with.  The
\* streams loaded hold string values only: another value type, a module's
\* AUX data and a "lua" AUX field end the load here as a corrupt file does.
\* The host is little endian (memrev64ifbe does nothing).
LoadTurn(file, s, st, cfg, rdbver) ==
    IF Len(s) < 1 THEN Eoferr(st)
    ELSE Let(Skip(s, 1), LAMBDA r :
        IF s[1] = RDB_OPCODE_EXPIRETIME
        THEN IF Len(r) < 4 THEN Exited("Impossible to read", st)
             ELSE Continue(Skip(r, 4),
                    [st EXCEPT !.expiretime =
                        Int64Times(SignExtend(SubSeq(r, 1, 4)), 1000, 0)])
        ELSE IF s[1] = RDB_OPCODE_EXPIRETIME_MS
        THEN IF Len(r) < 8 THEN Exited("Impossible to read", st)
             ELSE Continue(Skip(r, 8),
                    [st EXCEPT !.expiretime = SubSeq(r, 1, 8)])
        ELSE IF s[1] = RDB_OPCODE_FREQ
        THEN IF Len(r) < 1 THEN Eoferr(st)
             ELSE Continue(Skip(r, 1), [st EXCEPT !.lfu_freq = r[1]])
        ELSE IF s[1] = RDB_OPCODE_IDLE
        THEN Let(rdbLoadLen(r), LAMBDA q :
                IF q.exit THEN Exited("Unknown length encoding", st)
                ELSE IF q.len = RDB_LENERR THEN Eoferr(st)
                ELSE Continue(q.rest, [st EXCEPT !.lru_idle = q.len]))
        ELSE IF s[1] = RDB_OPCODE_EOF
        THEN LoadChecksum(file, r, st, cfg, rdbver)
        ELSE IF s[1] = RDB_OPCODE_SELECTDB
        THEN Let(rdbLoadLen(r), LAMBDA q :
                IF q.exit THEN Exited("Unknown length encoding", st)
                ELSE IF q.len = RDB_LENERR THEN Eoferr(st)
                ELSE IF ~U64Fits(q.len) \/ U64Value(q.len) >= cfg.dbnum
                THEN Exited("more databases", st)
                ELSE Continue(q.rest, [st EXCEPT !.dbid = U64Value(q.len)]))
        ELSE IF s[1] = RDB_OPCODE_RESIZEDB
        THEN Let(rdbLoadLen(r), LAMBDA q :
                IF q.exit THEN Exited("Unknown length encoding", st)
                ELSE IF q.len = RDB_LENERR THEN Eoferr(st)
                ELSE Let(rdbLoadLen(q.rest), LAMBDA q2 :
                    IF q2.exit THEN Exited("Unknown length encoding", st)
                    ELSE IF q2.len = RDB_LENERR THEN Eoferr(st)
                    ELSE Continue(q2.rest, st)))
        ELSE IF s[1] = RDB_OPCODE_AUX
        THEN Let(rdbGenericLoadStringObject(r, RDB_LOAD_NONE), LAMBDA auxkey :
                IF auxkey.exit THEN Exited("Unknown RDB string encoding type", st)
                ELSE IF ~auxkey.ok THEN Eoferr(st)
                ELSE Let(rdbGenericLoadStringObject(auxkey.rest, RDB_LOAD_NONE),
                         LAMBDA auxval :
                    IF auxval.exit THEN Exited("Unknown RDB string encoding type", st)
                    ELSE IF ~auxval.ok THEN Eoferr(st)
                    ELSE IF auxkey.str = <<108, 117, 97>>
                    THEN Exited("Can't load Lua script", st)
                    ELSE Continue(auxval.rest, st)))
        ELSE IF s[1] = RDB_OPCODE_MODULE_AUX
        THEN Exited("AUX module data I can't load", st)
        ELSE Let(rdbGenericLoadStringObject(r, RDB_LOAD_NONE), LAMBDA key :
                IF key.exit THEN Exited("Unknown RDB string encoding type", st)
                ELSE IF ~key.ok THEN Eoferr(st)
                ELSE IF s[1] # RDB_TYPE_STRING THEN Exited("Unknown RDB encoding type", st)
                ELSE Let(rdbGenericLoadStringObject(key.rest, RDB_LOAD_ENC), LAMBDA val :
                    IF val.exit THEN Exited("Unknown RDB string encoding type", st)
                    ELSE IF ~val.ok THEN Eoferr(st)
                    ELSE Continue(val.rest,
                            ResetKeyState([st EXCEPT
                                !.db = AddKey(st, cfg, key.str, val.str)])))))

\* the while(1) of rdbLoadRio from one turn on
RECURSIVE LoadLoop(_, _, _, _)
LoadLoop(file, turn, cfg, rdbver) ==
    IF ~turn.next THEN turn
    ELSE LoadLoop(file, LoadTurn(file, turn.s, turn.st, cfg, rdbver), cfg, rdbver)

\* atoi of the 4 characters after "REDIS"
atoi(s) == Int32Of(strtoll(s).value)

\* rdbLoadRio loading a file of any version
rdbLoadRio_AnyVersion(file, cfg) ==
    IF Len(file) < 9 THEN Eoferr(LoadStart(cfg.dbnum))
    ELSE IF SubSeq(file, 1, 5) # <<82, 69, 68, 73, 83>>
    THEN Returned(C_ERR, EINVAL, LoadStart(cfg.dbnum))
    ELSE Let(atoi(SubSeq(file, 6, 9)), LAMBDA rdbver :
        LoadLoop(file, Continue(Skip(file, 9), LoadStart(cfg.dbnum)), cfg, rdbver))

\* rdbLoadRio of the stream `file` into the server cfg = [rdb_checksum,
\* masterhost, loading_aof, now, dbnum], whose databases are empty
rdbLoadRio(file, cfg) ==
    IF Len(file) < 9 THEN Eoferr(LoadStart(cfg.dbnum))
    ELSE IF SubSeq(file, 1, 5) # <<82, 69, 68, 73, 83>>
    THEN Returned(C_ERR, EINVAL, LoadStart(cfg.dbnum))
    ELSE Let(atoi(SubSeq(file, 6, 9)), LAMBDA rdbver :
        IF rdbver < 1 \/ rdbver > RDB_VERSION
        THEN Returned(C_ERR, EINVAL, LoadStart(cfg.dbnum))
        ELSE LoadLoop(file, Continue(Skip(file, 9), LoadStart(cfg.dbnum)), cfg, rdbver))

\* ---- rdbSave, rdbSaveBackground and backgroundSaveDoneHandlerDisk
\* The saving server is [dirty, dirty_before_bgsave, lastsave,
\* lastbgsave_status, rdb_child_pid, aof_child_pid, unixtime, disk, child,
\* since_fork, rdb_child_type, running]: unixtime is what time(NULL)
\* returns, since_fork (ghost) the number of changes made since the fork of
\* the child that runs, running (ghost) the pids of the snapshot children
\* forked and not yet waited for, disk gives
\* for every file "absent", "open" (created, not yet written whole) or
\* "complete"; child
\* is the process rdbSaveBackground or rdbSaveToSlavesSockets forked last:
\* its position in rdbSave ("open", "write", "rename") or in the transfer
\* to the replicas ("transfer"), or how it ended ("exited" with exitcode,
\* "killed" with bysignal).  The memory of the child is a copy: of what the
\* child does only the disk is seen by the server.
MainPid == 1
ChildPids == {2, 3}
SIGKILL == 9
SIGUSR1 == 10
\* "temp-%d.rdb" and server.rdb_filename
TempFile(pid) == <<"temp", pid>>
DumpFile == <<"dump", 0>>
Files == {TempFile(pid) : pid \in {MainPid} \cup ChildPids} \cup {DumpFile}
\* rdb.h
RDB_CHILD_TYPE_NONE == 0
RDB_CHILD_TYPE_DISK == 1
RDB_CHILD_TYPE_SOCKET == 2
NoChild == [pc |-> "none", pid |-> -1, exitcode |-> 0, bysignal |-> 0]
initServer ==
    [dirty |-> 0, dirty_before_bgsave |-> 0, lastsave |-> 0,
     lastbgsave_status |-> C_OK, rdb_child_pid |-> -1, aof_child_pid |-> -1,
     unixtime |-> 0, disk |-> [f \in Files |-> "absent"], child |-> NoChild,
     since_fork |-> 0, rdb_child_type |-> RDB_CHILD_TYPE_NONE, running |-> {}]

unlink(disk, f) == [disk EXCEPT ![f] = "absent"]

\* One rdbSave is given [open, sv, room, flushed, rename]: fopen succeeds or
\* not, sv is the content saved, the file takes `room` bytes, fflush, fsync
\* and fclose succeed or not, rename succeeds or not.
\* rdbSave in three parts, each [ret, disk]: to fopen; rdbSaveRio, fflush,
\* fsync and fclose; rename
rdbSaveOpen(disk, pid, env) ==
    IF env.open THEN [ret |-> C_OK, disk |-> [disk EXCEPT ![TempFile(pid)] = "open"]]
    ELSE [ret |-> C_ERR, disk |-> disk]

\* the write of rdbSave leaving the temp file where it is on an error
rdbSaveWrite_KeepTemp(disk, pid, env) ==
    IF rdbSaveRio(env.sv, env.room).ret = C_ERR \/ ~env.flushed
    THEN [ret |-> C_ERR, disk |-> disk]
    ELSE [ret |-> C_OK, disk |-> [disk EXCEPT ![TempFile(pid)] = "complete"]]

rdbSaveWrite(disk, pid, env) ==
    IF rdbSaveRio(env.sv, env.room).ret = C_ERR \/ ~env.flushed
    THEN [ret |-> C_ERR, disk |-> unlink(disk, TempFile(pid))]
    ELSE [ret |-> C_OK, disk |-> [disk EXCEPT ![TempFile(pid)] = "complete"]]

rdbSaveRename(disk, pid, env) ==
    IF env.rename
    THEN [ret |-> C_OK,
          disk |-> [disk EXCEPT ![DumpFile] = disk[TempFile(pid)],
                                ![TempFile(pid)] = "absent"]]
    ELSE [ret |-> C_ERR, disk |-> unlink(disk, TempFile(pid))]

\* rdbSave by process pid: [ret, server]
rdbSave(srv, pid, env) ==
    Let(rdbSaveOpen(srv.disk, pid, env), LAMBDA o :
        IF o.ret = C_ERR THEN [ret |-> C_ERR, server |-> srv]
        ELSE Let(rdbSaveWrite(o.disk, pid, env), LAMBDA w :
            IF w.ret = C_ERR THEN [ret |-> C_ERR, server |-> [srv EXCEPT !.disk = w.disk]]
            ELSE Let(rdbSaveRename(w.disk, pid, env), LAMBDA r :
                IF r.ret = C_ERR
                THEN [ret |-> C_ERR, server |-> [srv EXCEPT !.disk = r.disk]]
                ELSE [ret |-> C_OK,
                      server |-> [srv EXCEPT !.disk = r.disk, !.dirty = 0,
                                             !.lastsave = srv.unixtime,
                                             !.lastbgsave_status = C_OK]])))

\* rdbSaveBackground in the server; childpid is what fork returns (-1 when
\* it fails).  updateDictResizePolicy (server.c) is not part of this model.
rdbSaveBackground(srv, childpid) ==
    IF srv.aof_child_pid # -1 \/ srv.rdb_child_pid # -1
    THEN [ret |-> C_ERR, server |-> srv]
    ELSE IF childpid = -1
    THEN [ret |-> C_ERR,
          server |-> [srv EXCEPT !.dirty_before_bgsave = srv.dirty,
                                 !.lastbgsave_status = C_ERR]]
    ELSE [ret |-> C_OK,
          server |-> [srv EXCEPT !.dirty_before_bgsave = srv.dirty,
                                 !.rdb_child_pid = childpid,
                                 !.rdb_child_type = RDB_CHILD_TYPE_DISK,
                                 !.running = @ \cup {childpid},
                                 !.child = [pc |-> "open", pid |-> childpid,
                                            exitcode |-> 0, bysignal |-> 0]]]

\* rdbSaveToSlavesSockets; piped says whether pipe() succeeded, childpid is
\* what fork returns
rdbSaveToSlavesSockets_NoGuard(srv, piped, childpid) ==
    IF ~piped \/ childpid = -1
    THEN [ret |-> C_ERR, server |-> srv]
    ELSE [ret |-> C_OK,
          server |-> [srv EXCEPT !.rdb_child_pid = childpid,
                                 !.rdb_child_type = RDB_CHILD_TYPE_SOCKET,
                                 !.running = @ \cup {childpid},
                                 !.child = [pc |-> "transfer", pid |-> childpid,
                                            exitcode |-> 0, bysignal |-> 0]]]

rdbSaveToSlavesSockets(srv, piped, childpid) ==
    IF srv.aof_child_pid # -1 \/ srv.rdb_child_pid # -1
    THEN [ret |-> C_ERR, server |-> srv]
    ELSE IF ~piped \/ childpid = -1
    THEN [ret |-> C_ERR, server |-> srv]
    ELSE [ret |-> C_OK,
          server |-> [srv EXCEPT !.rdb_child_pid = childpid,
                                 !.rdb_child_type = RDB_CHILD_TYPE_SOCKET,
                                 !.running = @ \cup {childpid},
                                 !.child = [pc |-> "transfer", pid |-> childpid,
                                            exitcode |-> 0, bysignal |-> 0]]]

rdbRemoveTempFile(disk, childpid) == unlink(disk, TempFile(childpid))

\* backgroundSaveDoneHandlerDisk clearing the dirty counter on success
backgroundSaveDoneHandlerDisk_ClearDirty(srv, exitcode, bysignal) ==
    Let(IF bysignal = 0 /\ exitcode = 0
        THEN [srv EXCEPT !.dirty = 0,
                         !.lastsave = srv.unixtime,
                         !.lastbgsave_status = C_OK]
        ELSE IF bysignal = 0 /\ exitcode # 0
        THEN [srv EXCEPT !.lastbgsave_status = C_ERR]
        ELSE [srv EXCEPT !.disk = rdbRemoveTempFile(srv.disk, srv.rdb_child_pid),
                         !.lastbgsave_status =
                            IF bysignal # SIGUSR1 THEN C_ERR ELSE @], LAMBDA s1 :
        [s1 EXCEPT !.rdb_child_pid = -1, !.rdb_child_type = RDB_CHILD_TYPE_NONE,
                   !.child = NoChild])

\* backgroundSaveDoneHandlerDisk; the child is reaped
backgroundSaveDoneHandlerDisk(srv, exitcode, bysignal) ==
    Let(IF bysignal = 0 /\ exitcode = 0
        THEN [srv EXCEPT !.dirty = srv.dirty - srv.dirty_before_bgsave,
                         !.lastsave = srv.unixtime,
                         !.lastbgsave_status = C_OK]
        ELSE IF bysignal = 0 /\ exitcode # 0
        THEN [srv EXCEPT !.lastbgsave_status = C_ERR]
        ELSE [srv EXCEPT !.disk = rdbRemoveTempFile(srv.disk, srv.rdb_child_pid),
                         !.lastbgsave_status =
                            IF bysignal # SIGUSR1 THEN C_ERR ELSE @], LAMBDA s1 :
        [s1 EXCEPT !.rdb_child_pid = -1, !.rdb_child_type = RDB_CHILD_TYPE_NONE,
                   !.child = NoChild])

\* backgroundSaveDoneHandlerSocket: the three outcomes are logged, then
\* the state is updated (what becomes of the replicas plays no part here)
backgroundSaveDoneHandlerSocket(srv, exitcode, bysignal) ==
    [srv EXCEPT !.rdb_child_pid = -1, !.rdb_child_type = RDB_CHILD_TYPE_NONE,
                !.child = NoChild]

\* backgroundSaveDoneHandler: the handler of the child's type (any other
\* type is a serverPanic)
backgroundSaveDoneHandler(srv, exitcode, bysignal) ==
    IF srv.rdb_child_type = RDB_CHILD_TYPE_DISK
    THEN backgroundSaveDoneHandlerDisk(srv, exitcode, bysignal)
    ELSE backgroundSaveDoneHandlerSocket(srv, exitcode, bysignal)

NoRdb == [pc |-> "idle"]

\* ---------------------------------------------------------- actions
\* One action per public function.  `last` keeps the name of the call, its
\* argument when that is a size or a count (0 otherwise) and its result: the
\* int returned, or 1 / 0 for a pointer that is not / is NULL.
L(op, arg, ret) == [op |-> op, arg |-> arg, ret |-> ret]

NonNull(he) == IF he = NoEntry THEN 0 ELSE 1

\* the two table pointers, the two sizes and the two used counts
TableState(dd) ==
    <<TablePtr(dd.ht[0]), dd.ht[0].size, dd.ht[0].used,
      TablePtr(dd.ht[1]), dd.ht[1].size, dd.ht[1].used>>

\* ghost: the call has left the dict as dd2; a fast iterator is touched if
\* that changed one of the six
Touch(it, dd2) ==
    IF it.live /\ ~it.safe /\ TableState(dd2) # TableState(d)
    THEN [it EXCEPT !.touched = TRUE] ELSE it

\* an entry left the dict: it has not been there for the whole traversal
ScanAfterRemoval(key) ==
    [scan EXCEPT !.stay = @ \ {key}, !.pending = @ \ {key}]

\* an entry left the dict: an iterator that saved a pointer to it has a
\* stale pointer now
IterAfterRemoval(removed, key) ==
    IF removed /\ iter.live /\ iter.nextEntry = <<key>>
    THEN [iter EXCEPT !.stale = TRUE, !.stay = @ \ {key}]
    ELSE [iter EXCEPT !.stay = @ \ {key}]

Init ==
    /\ d = _dictInit
    /\ dict_can_resize = TRUE
    /\ unlinked = <<>>
    /\ iter = NoIter
    /\ kv = [k \in AllKeys |-> ABSENT]
    /\ scan = NoScan
    /\ last = L("dictCreate", 0, 0)
    \* bioInit
    /\ bio_jobs = [t \in Kinds |-> listCreate]
    /\ bio_pending = [t \in Kinds |-> 0]
    /\ bio_mutex = [t \in Kinds |-> FREE]
    /\ bio_thread = [t \in Kinds |-> NewThread]
    /\ caller = Idle
    /\ history = [submitted |-> [t \in Kinds |-> <<>>],
                  executed |-> [t \in Kinds |-> <<>>],
                  waits |-> [t \in Kinds |-> 0]]
    /\ zm = [used_memory |-> 0, header |-> [p \in Ptrs |-> Unallocated],
             thread |-> [t \in Threads |-> IdleThread]]
    /\ rdb = NoRdb
    /\ server = initServer

DictAdd(k, v) ==
    \E r \in {dictAdd(d, k, v)} :
        /\ d' = r.d
        /\ kv' = IF kv[k] = ABSENT THEN [kv EXCEPT ![k] = <<v>>] ELSE kv
        /\ last' = L("dictAdd", 0, r.ret)
        /\ iter' = Touch(iter, d')
        /\ UNCHANGED <<zm, rdb, server, bioVars, scan, dict_can_resize, unlinked>>

DictAddRaw(k) ==
    \E r \in {dictAddRaw(d, k)} :
        /\ d' = r.d
        /\ kv' = IF kv[k] = ABSENT THEN [kv EXCEPT ![k] = <<UNSET>>] ELSE kv
        /\ last' = L("dictAddRaw", 0, NonNull(r.entry))
        /\ iter' = Touch(iter, d')
        /\ UNCHANGED <<zm, rdb, server, bioVars, scan, dict_can_resize, unlinked>>

DictReplace(k, v) ==
    \E r \in {dictReplace(d, k, v)} :
        /\ d' = r.d
        /\ kv' = [kv EXCEPT ![k] = <<v>>]
        /\ last' = L("dictReplace", 0, r.ret)
        /\ iter' = Touch(iter, d')
        /\ UNCHANGED <<zm, rdb, server, bioVars, scan, dict_can_resize, unlinked>>

DictAddOrFind(k) ==
    \E r \in {dictAddOrFind(d, k)} :
        /\ d' = r.d
        /\ kv' = IF kv[k] = ABSENT THEN [kv EXCEPT ![k] = <<UNSET>>] ELSE kv
        /\ last' = L("dictAddOrFind", 0, NonNull(r.entry))
        /\ iter' = Touch(iter, d')
        /\ UNCHANGED <<zm, rdb, server, bioVars, scan, dict_can_resize, unlinked>>

DictFind(k) ==
    \E r \in {dictFind(d, k)} :
        /\ d' = r.d
        /\ last' = L("dictFind", 0, NonNull(r.he))
        /\ iter' = Touch(iter, d')
        /\ UNCHANGED <<zm, rdb, server, bioVars, scan, dict_can_resize, unlinked, kv>>

DictDelete(k) ==
    \E r \in {dictDelete(d, k)} :
        /\ d' = r.d
        /\ kv' = [kv EXCEPT ![k] = ABSENT]
        /\ iter' = Touch(IterAfterRemoval(r.ret = DICT_OK, k), d')
        /\ last' = L("dictDelete", 0, r.ret)
        /\ scan' = ScanAfterRemoval(k)
        /\ UNCHANGED <<zm, rdb, server, bioVars, dict_can_resize, unlinked>>

\* dictUnlink; the caller keeps the entry returned
DictUnlink(k) ==
    \E r \in {dictUnlink(d, k)} :
        /\ d' = r.d
        /\ kv' = [kv EXCEPT ![k] = ABSENT]
        /\ unlinked' = unlinked \o r.he
        /\ iter' = Touch(IterAfterRemoval(r.he # NoEntry, k), d')
        /\ last' = L("dictUnlink", 0, NonNull(r.he))
        /\ scan' = ScanAfterRemoval(k)
        /\ UNCHANGED <<zm, rdb, server, bioVars, dict_can_resize>>

\* dictFreeUnlinkedEntry on the i-th entry the caller keeps; i = 0 passes NULL
DictFreeUnlinkedEntry(i) ==
    /\ unlinked' = IF i = 0 THEN unlinked ELSE RemoveAt(unlinked, i)
    /\ last' = L("dictFreeUnlinkedEntry", i,
                 Len(dictFreeUnlinkedEntry(IF i = 0 THEN NoEntry
                                           ELSE <<unlinked[i]>>)))
    /\ iter' = Touch(iter, d')
    /\ UNCHANGED <<zm, rdb, server, bioVars, scan, d, dict_can_resize, kv>>

DictExpand(size) ==
    \E r \in {dictExpand(d, size)} :
        /\ d' = r.d
        /\ last' = L("dictExpand", size, r.ret)
        /\ iter' = Touch(iter, d')
        /\ UNCHANGED <<zm, rdb, server, bioVars, scan, dict_can_resize, unlinked, kv>>

DictResize ==
    \E r \in {dictResize(d)} :
        /\ d' = r.d
        /\ last' = L("dictResize", 0, r.ret)
        /\ iter' = Touch(iter, d')
        /\ UNCHANGED <<zm, rdb, server, bioVars, scan, dict_can_resize, unlinked, kv>>

DictRehash(n) ==
    \E r \in {dictRehash(d, n)} :
        /\ d' = r.d
        /\ last' = L("dictRehash", n, r.ret)
        /\ iter' = Touch(iter, d')
        /\ UNCHANGED <<zm, rdb, server, bioVars, scan, dict_can_resize, unlinked, kv>>

DictRehashMilliseconds(chunks) ==
    /\ d' = dictRehashMilliseconds(d, chunks)
    /\ last' = L("dictRehashMilliseconds", chunks, 0)
    /\ iter' = Touch(iter, d')
    /\ UNCHANGED <<zm, rdb, server, bioVars, scan, dict_can_resize, unlinked, kv>>

DictGetRandomKey ==
    \E r \in {dictGetRandomKey(d)} :
        /\ \E he \in r.hes : last' = L("dictGetRandomKey", 0, NonNull(he))
        /\ d' = r.d
        /\ iter' = Touch(iter, d')
        /\ UNCHANGED <<zm, rdb, server, bioVars, scan, dict_can_resize, unlinked, kv>>

DictGetSomeKeys(count, rnd) ==
    \E r \in {dictGetSomeKeys(d, count, rnd)} :
    /\ d' = r.d
    /\ last' = L("dictGetSomeKeys", count, r.ret)
    /\ iter' = Touch(iter, d')
    /\ UNCHANGED <<zm, rdb, server, bioVars, scan, dict_can_resize, unlinked, kv>>

\* dictEnableResize / dictDisableResize
DictEnableResize ==
    /\ dict_can_resize' = TRUE
    /\ last' = L("dictEnableResize", 0, 0)
    /\ UNCHANGED <<zm, rdb, server, bioVars, scan, d, unlinked, iter, kv>>

DictDisableResize ==
    /\ dict_can_resize' = FALSE
    /\ last' = L("dictDisableResize", 0, 0)
    /\ UNCHANGED <<zm, rdb, server, bioVars, scan, d, unlinked, iter, kv>>

DictGetSafeIterator ==
    /\ ~iter.live
    /\ iter' = dictGetSafeIterator
    /\ last' = L("dictGetSafeIterator", 0, 1)
    /\ UNCHANGED <<zm, rdb, server, bioVars, scan, d, dict_can_resize, unlinked, kv>>

DictGetIterator ==
    /\ ~iter.live
    /\ iter' = dictGetIterator
    /\ last' = L("dictGetIterator", 0, 1)
    /\ UNCHANGED <<zm, rdb, server, bioVars, scan, d, dict_can_resize, unlinked, kv>>

\* dictNext, called until it returns NULL
DictNext ==
    /\ iter.live /\ ~iter.done
    /\ \E garbage \in {<<>>} \cup {<<k>> : k \in {x \in AllKeys : PlaceOf(d, x) # NoEntry}} :
       \E r \in {dictNext(d, iter, garbage)} :
           /\ d' = r.d
           /\ iter' = r.it
           /\ last' = L("dictNext", 0, NonNull(r.ret))
    /\ UNCHANGED <<zm, rdb, server, bioVars, scan, dict_can_resize, unlinked, kv>>

\* dictNext of a walk over the whole dict with a safe iterator.  Ghost:
\* stay is the set of keys that have been in the dict since the first
\* dictNext, returned the keys among them whose entry was returned, twice
\* those whose entry was returned more than once.
WalkNext ==
    /\ iter.live /\ iter.safe /\ ~iter.done
    /\ \E garbage \in {<<>>} \cup {<<k>> : k \in {x \in AllKeys : PlaceOf(d, x) # NoEntry}} :
       \E r \in {dictNext(d, iter, garbage)} :
       \E stay \in {IF iter.index = -1 /\ iter.table = 0
                     THEN {k \in AllKeys : PlaceOf(d, k) # NoEntry} ELSE iter.stay} :
           /\ d' = r.d
           /\ iter' = [r.it EXCEPT
                         !.stay = stay,
                         !.returned = @ \cup ({r.ret[i] : i \in DOMAIN r.ret} \cap stay),
                         !.twice = @ \cup ({r.ret[i] : i \in DOMAIN r.ret}
                                              \cap iter.returned \cap stay)]
           /\ last' = L("dictNext", 0, NonNull(r.ret))
    /\ UNCHANGED <<zm, rdb, server, bioVars, scan, dict_can_resize, unlinked, kv>>

\* dictEmpty; an iterator that saved a pointer to an entry has a stale
\* pointer now
DictEmpty ==
    /\ d' = dictEmpty(d)
    /\ kv' = [k \in AllKeys |-> ABSENT]
    /\ iter' = Touch([iter EXCEPT !.stale = iter.live /\ iter.nextEntry # <<>>,
                                  !.stay = {}], d')
    /\ scan' = [scan EXCEPT !.stay = {}, !.pending = {}]
    /\ last' = L("dictEmpty", 0, 0)
    /\ UNCHANGED <<zm, rdb, server, bioVars, dict_can_resize, unlinked>>

DictReleaseIterator ==
    \E r \in {dictReleaseIterator(d, iter)} :
        /\ iter.live
        /\ d' = r.d
        /\ iter' = r.it
        /\ last' = L("dictReleaseIterator", 0, 0)
        /\ UNCHANGED <<zm, rdb, server, bioVars, scan, dict_can_resize, unlinked, kv>>

\* dictScan with the cursor the last call returned (0 to begin with)
DictScan ==
    \E r \in {dictScan(d, scan.cursor)} :
        /\ scan' = Let(IF scan.active THEN scan
                       ELSE [NoScan EXCEPT !.size = d.ht[0].size,
                                           !.stay = {k \in AllKeys : kv[k] # ABSENT},
                                           !.pending = {k \in AllKeys : kv[k] # ABSENT}],
                       LAMBDA s :
                       [s EXCEPT !.cursor = r.v, !.active = r.v # 0,
                                 !.pending = @ \ {r.fn[i] : i \in 1..Len(r.fn)}])
        /\ last' = L("dictScan", 0, r.v)
        /\ UNCHANGED <<zm, rdb, server, bioVars, d, dict_can_resize, unlinked, iter, kv>>

\* The caller that fills the dict: it adds the keys 2, 3, ... in this order
\* (the first four fill the four buckets of the initial table) and deletes
\* the key it added last (its keys are not in the ghost map).
DictAddNext ==
    \E r \in {dictAdd(d, dictSize(d) + 2, 1)} :
        /\ d' = r.d
        /\ last' = L("dictAdd", 0, r.ret)
        /\ iter' = Touch(iter, d')
        /\ UNCHANGED <<zm, rdb, server, bioVars, scan, dict_can_resize, unlinked, kv>>

DictDeleteLast ==
    \E r \in {dictDelete(d, dictSize(d) + 1)} :
        /\ d' = r.d
        /\ last' = L("dictDelete", 0, r.ret)
        /\ iter' = Touch(iter, d')
        /\ UNCHANGED <<zm, rdb, server, bioVars, scan, dict_can_resize, unlinked, kv>>

\* ------------------------------------------------ actions of zmalloc
dictBioVars == <<d, dict_can_resize, unlinked, iter, kv, scan, bioVars>>

Zmalloc(size) ==
    \E ptr \in {p \in Ptrs : zm.header[p] = Unallocated} :
        /\ zm' = zmalloc(zm, ptr, size)
        /\ last' = L("zmalloc", size, ptr)
        /\ UNCHANGED <<dictBioVars, rdb, server>>

Zcalloc(size) ==
    \E ptr \in {p \in Ptrs : zm.header[p] = Unallocated} :
        /\ zm' = zcalloc(zm, ptr, size)
        /\ last' = L("zcalloc", size, ptr)
        /\ UNCHANGED <<dictBioVars, rdb, server>>

\* zrealloc(NULL, size) is zmalloc(size)
Zrealloc(ptr, size) ==
    /\ ptr # NULL => zm.header[ptr] # Unallocated
    /\ IF ptr = NULL
       THEN \E new \in {p \in Ptrs : zm.header[p] = Unallocated} :
                /\ zm' = zmalloc(zm, new, size)
                /\ last' = L("zmalloc", size, new)
       ELSE /\ zm' = zrealloc(zm, ptr, size)
            /\ last' = L("zrealloc", size, ptr)
    /\ UNCHANGED <<dictBioVars, rdb, server>>

Zfree(ptr) ==
    /\ ptr # NULL => zm.header[ptr] # Unallocated
    /\ zm' = zfree(zm, ptr)
    /\ last' = L("zfree", ptr, 0)
    /\ UNCHANGED <<dictBioVars, rdb, server>>

\* ------------------------------------ actions of the allocator's callers
ThreadSizes == {1, MaxSize}
Busy(ptr) == \E t \in Threads : zm.thread[t].pc # "idle" /\ zm.thread[t].ptr = ptr
Held == {p \in Ptrs : zm.header[p] # Unallocated /\ ~Busy(p)}

\* zmalloc up to the size written in the prefix: malloc(size+PREFIX_SIZE)
\* and *((size_t*)ptr) = size
ThreadMalloc(t, size) ==
    /\ zm.thread[t].pc = "idle"
    /\ \E ptr \in {p \in Ptrs : zm.header[p] = Unallocated} :
        /\ zm' = [zm EXCEPT !.header[ptr] = size,
                            !.thread[t] = [pc |-> "load", op |-> "zmalloc",
                                           ptr |-> ptr, loaded |-> 0,
                                           todo |-> <<Incr(size + PREFIX_SIZE)>>]]
        /\ last' = L("malloc", size, ptr)
    /\ UNCHANGED <<dictBioVars, rdb, server>>

\* zrealloc of a block the program holds, up to the new size written in
\* the prefix: oldsize is read, realloc resizes, the size is written
ThreadRealloc(t, ptr, size) ==
    /\ zm.thread[t].pc = "idle"
    /\ ptr \in Held
    /\ zm' = [zm EXCEPT !.header[ptr] = size,
                        !.thread[t] = [pc |-> "load", op |-> "zrealloc",
                                       ptr |-> ptr, loaded |-> 0,
                                       todo |-> <<Decr(zm.header[ptr] + PREFIX_SIZE),
                                                  Incr(size + PREFIX_SIZE)>>]]
    /\ last' = L("realloc", ptr, size)
    /\ UNCHANGED <<dictBioVars, rdb, server>>

\* zfree of a block the program holds, up to oldsize read from the prefix
ThreadFree(t, ptr) ==
    /\ zm.thread[t].pc = "idle"
    /\ ptr \in Held
    /\ zm' = [zm EXCEPT !.thread[t] = [pc |-> "load", op |-> "zfree",
                                       ptr |-> ptr, loaded |-> 0,
                                       todo |-> <<Decr(zm.header[ptr] + PREFIX_SIZE)>>]]
    /\ last' = L("oldsize", ptr, zm.header[ptr])
    /\ UNCHANGED <<dictBioVars, rdb, server>>

\* the thread reaches its next update_zmalloc_stat_*: the counter as it is
\* when the macro is entered
ThreadLoad(t) ==
    /\ zm.thread[t].pc = "load"
    /\ zm' = [zm EXCEPT !.thread[t].pc = "store",
                        !.thread[t].loaded = zm.used_memory]
    /\ last' = L("update_zmalloc_stat", t, zm.used_memory)
    /\ UNCHANGED <<dictBioVars, rdb, server>>

\* atomicIncr or atomicDecr; after the last one zmalloc and zrealloc
\* return and zfree goes on to free(realptr)
ThreadStore(t) ==
    /\ zm.thread[t].pc = "store"
    /\ LET th == zm.thread[t]
           rest == Tail(th.todo)
       IN /\ zm' = [zm EXCEPT
                      !.used_memory = StatUpdate(@, th.loaded, Head(th.todo)),
                      !.thread[t] =
                          IF rest # <<>> THEN [th EXCEPT !.pc = "load", !.todo = rest]
                          ELSE IF th.op = "zfree"
                               THEN [th EXCEPT !.pc = "free", !.todo = rest]
                               ELSE IdleThread]
          /\ last' = L(Head(th.todo).dir, t, Head(th.todo).n)
    /\ UNCHANGED <<dictBioVars, rdb, server>>

\* free(realptr), the end of zfree
ThreadFreeBlock(t) ==
    /\ zm.thread[t].pc = "free"
    /\ zm' = [zm EXCEPT !.header[zm.thread[t].ptr] = Unallocated,
                        !.thread[t] = IdleThread]
    /\ last' = L("free", zm.thread[t].ptr, 0)
    /\ UNCHANGED <<dictBioVars, rdb, server>>

\* ---------------------------------------------------- actions of RDB
otherVars == <<d, dict_can_resize, unlinked, iter, kv, scan, bioVars, zm, server>>

\* the bytes of the lengths the caller saves: each of the 8 bytes of a
\* uint64_t is one of these
LenBytes == {0, 63, 64, 255}
Lens == [1..8 -> LenBytes]

\* rdbSaveLen into an empty stream
RdbSaveLen(len) ==
    /\ rdb' = [pc |-> "len_saved", len |-> len, file |-> rdbSaveLen(len)]
    /\ last' = L("rdbSaveLen", 0, Len(rdb'.file))
    /\ UNCHANGED otherVars

\* rdbLoadLen from that stream
RdbLoadLen ==
    /\ rdb.pc = "len_saved"
    /\ rdb' = [pc |-> "len_loaded", len |-> rdb.len, file |-> rdb.file,
               loaded |-> rdbLoadLen(rdb.file)]
    /\ last' = L("rdbLoadLen", 0, 0)
    /\ UNCHANGED otherVars


\* the strings the caller saves: the decimal text of these integers, which
\* stand on both sides of every width's limits, and strings that are no
\* canonical decimal text of an int32_t
SavedInts ==
    {0, 1, -1, 9, 10, -10, 127, 128, -127, -128, -129, 255, 256, 12345, -12345,
     32767, 32768, -32767, -32768, -32769, 65535, 65536, 16777216,
     INT32_MAX, INT32_MAX - 1, INT32_MIN, INT32_MIN + 1}
OtherStrings ==
    {
      <<50, 49, 52, 55, 52, 56, 51, 54, 52, 56>>,   \* "2147483648"
      <<45, 50, 49, 52, 55, 52, 56, 51, 54, 52, 57>>,   \* "-2147483649"
      <<57, 57, 57, 57, 57, 57, 57, 57, 57, 57, 57>>,   \* "99999999999"
      <<45, 57, 57, 57, 57, 57, 57, 57, 57, 57, 57>>,   \* "-9999999999"
      <<49, 48, 48, 48, 48, 48, 48, 48, 48, 48, 48, 48>>,   \* "100000000000"
      <<48, 48, 55>>,   \* "007"
      <<43, 53>>,   \* "+5"
      <<45, 48>>,   \* "-0"
      <<32, 53>>,   \* " 5"
      <<53, 32>>,   \* "5 "
      <<49, 50, 97>>,   \* "12a"
      <<>>,   \* ""
      <<45>>,   \* "-"
      <<97, 98, 99>>,   \* "abc"
      <<48, 120, 49, 48>>,   \* "0x10"
      <<49, 101, 51>>,   \* "1e3"
      <<48, 48>>,   \* "00"
      <<45, 48, 49>>,   \* "-01"
      <<49, 50, 51, 52, 53, 54, 55, 56, 57, 48, 49, 50, 51, 52, 53, 54, 55, 56, 57, 48>>    \* "12345678901234567890"
    }
SavedStrings == {ll2string(LL(n)) : n \in SavedInts} \cup OtherStrings

\* rdbSaveRawString into an empty stream
RdbSaveRawString(s) ==
    /\ rdb' = [pc |-> "str_saved", s |-> s, file |-> rdbSaveRawString(s)]
    /\ last' = L("rdbSaveRawString", 0, Len(rdb'.file))
    /\ UNCHANGED otherVars

\* rdbGenericLoadStringObject from that stream
RdbLoadString(flags) ==
    /\ rdb.pc = "str_saved"
    /\ rdb' = [pc |-> "str_loaded", s |-> rdb.s, file |-> rdb.file, flags |-> flags,
               loaded |-> rdbGenericLoadStringObject(rdb.file, flags)]
    /\ last' = L("rdbGenericLoadStringObject", flags, 0)
    /\ UNCHANGED otherVars

\* ---- the caller that saves the databases, damages the file or not, and
\* loads it into an empty server
DbNum == 2
CTime == 7
Now == 10

\* the entries the databases are made of: keys "a" and "b", values "12345",
\* "-1" and "x", expire times before and after the clock of the load, idle
\* times that are and are not whole seconds
EntryA1 == [key |-> <<97>>, val |-> <<49, 50, 51, 52, 53>>, expire |-> -1,
            idle |-> 1500, freq |-> 7]
EntryA2 == [key |-> <<97>>, val |-> <<45, 49>>, expire |-> Now + 10,
            idle |-> 2000, freq |-> 1]
EntryB1 == [key |-> <<98>>, val |-> <<120>>, expire |-> Now - 5,
            idle |-> 0, freq |-> 0]
EntryB2 == [key |-> <<98>>, val |-> <<120>>, expire |-> Now + 10,
            idle |-> 999, freq |-> 255]
FirstDbs ==
    {<<>>} \cup {<<a>> : a \in {EntryA1, EntryA2, EntryB1, EntryB2}}
    \cup {<<a, b>> : a \in {EntryA1, EntryA2}, b \in {EntryB1, EntryB2}}
    \cup {<<b, a>> : a \in {EntryA1, EntryA2}, b \in {EntryB1, EntryB2}}
OtherDbs == {<<>>, <<EntryB1>>}
Databases == {db \in [1..DbNum -> FirstDbs] : \A j \in 2..DbNum : db[j] \in OtherDbs}
Savers ==
    [maxmemory_policy : {0, MAXMEMORY_FLAG_LRU, MAXMEMORY_FLAG_LFU},
     rdb_checksum : BOOLEAN, db : Databases, ctime : {CTime}, used_mem : {0},
     rsi : {<<>>}, lua_scripts : {<<>>}]
Loaders ==
    [rdb_checksum : BOOLEAN, masterhost : {NULL, 1}, loading_aof : BOOLEAN,
     now : {Int64(Now)}, dbnum : {DbNum}]

\* ---- the savers whose streams are compared with the layout of the format:
\* with and without replication information and cached scripts
Rsi == [repl_stream_db |-> 0, replid |-> [i \in 1..40 |-> 48], master_repl_offset |-> 0]
ScriptA == <<114, 101, 116, 117, 114, 110, 32, 49>>
ScriptB == <<114, 101, 116, 117, 114, 110, 32, 50>>
LayoutSavers ==
    [maxmemory_policy : {0, MAXMEMORY_FLAG_LRU, MAXMEMORY_FLAG_LFU},
     rdb_checksum : BOOLEAN, db : Databases, ctime : {CTime}, used_mem : {0},
     rsi : {<<>>, <<Rsi>>}, lua_scripts : {<<>>, <<ScriptA>>, <<ScriptA, ScriptB>>}]
\* the stream takes the whole file
NoLimit == 1000

\* the bytes damaged: the last two digits of the version, the last byte of
\* the "redis-ver" field, the first byte of the checksum
DamagedAt(file) == {8, 9, 26, Len(file) - 7}
DamagedTo == {48, 49, 52, 54}

\* rdbSaveRio into an empty stream
RdbSaveRio(sv) ==
    /\ rdb' = [pc |-> "rio_saved", sv |-> sv, damaged |-> FALSE,
               file |-> rdbSaveRio(sv, NoLimit).file]
    /\ last' = L("rdbSaveRio", 0, C_OK)
    /\ UNCHANGED otherVars

\* one byte of the file changes between the save and the load
RdbDamage(pos, byte) ==
    /\ rdb.pc = "rio_saved"
    /\ ~rdb.damaged
    /\ pos \in DamagedAt(rdb.file)
    /\ rdb.file[pos] # byte
    /\ rdb' = [rdb EXCEPT !.damaged = TRUE, !.file = [rdb.file EXCEPT ![pos] = byte]]
    /\ last' = L("damage", pos, byte)
    /\ UNCHANGED otherVars

\* rdbLoadRio of the file
RdbLoadRio(cfg) ==
    /\ rdb.pc = "rio_saved"
    /\ \E r \in {rdbLoadRio(rdb.file, cfg)} :
        /\ rdb' = [pc |-> "rio_loaded", sv |-> rdb.sv, damaged |-> rdb.damaged,
                   file |-> rdb.file, cfg |-> cfg, loaded |-> r]
        /\ last' = L("rdbLoadRio", 0, r.ret)
    /\ UNCHANGED otherVars


\* ---- streams put together by hand: up to MaxRecords records with the
\* keys "a", "b", "c" in this order, before each record a run of opcodes
ExpirePast == rdbSaveType(RDB_OPCODE_EXPIRETIME_MS) \o rdbSaveMillisecondTime(Now - 5)
ExpireLater == rdbSaveType(RDB_OPCODE_EXPIRETIME_MS) \o rdbSaveMillisecondTime(Now + 10)
IdleThree == rdbSaveType(RDB_OPCODE_IDLE) \o rdbSaveLen(U64(3))
FreqSeven == rdbSaveType(RDB_OPCODE_FREQ) \o <<7>>
SelectOne == rdbSaveType(RDB_OPCODE_SELECTDB) \o rdbSaveLen(U64(1))
OpcodeRuns ==
    {<<>>, <<ExpirePast>>, <<ExpireLater>>, <<IdleThree>>, <<FreqSeven>>,
     <<ExpireLater, IdleThree, FreqSeven>>, <<IdleThree, SelectOne>>}
MaxRecords == 3
RunsOfStream == UNION {[1..n -> OpcodeRuns] : n \in 1..MaxRecords}
RECURSIVE Flat(_)
Flat(ss) == IF ss = <<>> THEN <<>> ELSE Head(ss) \o Flat(Tail(ss))
RecordOf(i) ==
    rdbSaveType(RDB_TYPE_STRING) \o rdbSaveRawString(<<96 + i>>) \o rdbSaveRawString(<<120>>)
\* the stream of the runs rs: magic, runs and records, EOF, no checksum
StreamOf(rs) ==
    Magic(RDB_VERSION) \o Flat([i \in 1..Len(rs) |-> Flat(rs[i]) \o RecordOf(i)])
        \o rdbSaveType(RDB_OPCODE_EOF) \o Zeros(8)

\* a stream with the runs rs arrives
RdbCompose(rs) ==
    /\ rdb' = [pc |-> "rio_saved", sv |-> rs, damaged |-> FALSE, file |-> StreamOf(rs)]
    /\ last' = L("compose", 0, C_OK)
    /\ UNCHANGED otherVars
\* ---- the saving server
MaxDirty == 2
\* a write that fails after ShortRoom bytes
ShortRoom == 20
\* the databases saved
Saved ==
    [maxmemory_policy |-> 0, rdb_checksum |-> TRUE,
     db |-> [j \in 1..DbNum |-> IF j = 1 THEN <<EntryA1>> ELSE <<>>],
     ctime |-> CTime, used_mem |-> 0, rsi |-> <<>>, lua_scripts |-> <<>>]
\* what happens to one rdbSave: at most one of its system calls fails
AllSucceed == [open |-> TRUE, sv |-> Saved, room |-> NoLimit, flushed |-> TRUE, rename |-> TRUE]
Envs ==
    {AllSucceed, [AllSucceed EXCEPT !.open = FALSE], [AllSucceed EXCEPT !.room = ShortRoom],
     [AllSucceed EXCEPT !.flushed = FALSE], [AllSucceed EXCEPT !.rename = FALSE]}
MaxTime == 1

saveOther == <<dictBioVars, zm, rdb>>
InRdbSave == {"open", "write", "rename"}

\* a command that changes the data set: server.dirty++
Command ==
    /\ server.dirty < MaxDirty
    /\ server' = [server EXCEPT !.dirty = @ + 1,
                                !.since_fork = IF server.rdb_child_pid # -1 THEN @ + 1 ELSE @]
    /\ last' = L("command", 0, C_OK)
    /\ UNCHANGED saveOther

\* a second passes
Tick ==
    /\ server.unixtime < MaxTime
    /\ server' = [server EXCEPT !.unixtime = @ + 1]
    /\ last' = L("tick", 0, C_OK)
    /\ UNCHANGED saveOther

\* saveCommand: refused while a background save runs, else rdbSave
SaveCommand(env) ==
    /\ IF server.rdb_child_pid # -1
       THEN /\ last' = L("saveCommand", env, C_ERR)
            /\ UNCHANGED server
       ELSE \E r \in {rdbSave(server, MainPid, env)} :
            /\ server' = r.server
            /\ last' = L("rdbSave", env, r.ret)
    /\ UNCHANGED saveOther

\* bgsaveCommand: refused while a background save runs, else
\* rdbSaveBackground; fork gives childpid
BgsaveCommand(childpid) ==
    /\ IF server.rdb_child_pid # -1
       THEN /\ last' = L("bgsaveCommand", childpid, C_ERR)
            /\ UNCHANGED server
       ELSE \E r \in {rdbSaveBackground(server, childpid)} :
            /\ server' = [r.server EXCEPT !.since_fork = IF r.ret = C_OK THEN 0 ELSE @]
            /\ last' = L("rdbSaveBackground", childpid, r.ret)
    /\ UNCHANGED saveOther

\* the child went through a part of rdbSave; when rdbSave returns, the child
\* leaves with exitFromChild((retval == C_OK) ? 0 : 1)
ChildStep(r, env, then) ==
    /\ server' = [server EXCEPT
                    !.disk = r.disk,
                    !.child.pc = IF r.ret = C_ERR THEN "exited" ELSE then,
                    !.child.exitcode = IF r.ret = C_ERR THEN 1 ELSE 0]
    /\ last' = L(server.child.pc, env, r.ret)
    /\ UNCHANGED saveOther

ChildOpen(env) ==
    /\ server.child.pc = "open"
    /\ ChildStep(rdbSaveOpen(server.disk, server.child.pid, env), env, "write")

ChildWrite(env) ==
    /\ server.child.pc = "write"
    /\ ChildStep(rdbSaveWrite(server.disk, server.child.pid, env), env, "rename")

ChildRename(env) ==
    /\ server.child.pc = "rename"
    /\ ChildStep(rdbSaveRename(server.disk, server.child.pid, env), env, "exited")

\* a signal ends the child inside rdbSave
ChildKilled(sig) ==
    /\ server.child.pc \in InRdbSave \cup {"transfer"}
    /\ server' = [server EXCEPT !.child.pc = "killed", !.child.bysignal = sig]
    /\ last' = L("killed", sig, 0)
    /\ UNCHANGED saveOther

\* the server finds the child ended (wait3 gives the pid recorded) and
\* calls backgroundSaveDoneHandler.  The
\* step records the pid of the child, what its temp file was and what the
\* server's counters and times were.
BackgroundSaveDone ==
    /\ server.child.pc \in {"exited", "killed"}
    /\ server' = [backgroundSaveDoneHandler(server, server.child.exitcode,
                                            server.child.bysignal)
                      EXCEPT !.since_fork = 0, !.running = @ \ {server.child.pid}]
    /\ last' = L(IF server.rdb_child_type = RDB_CHILD_TYPE_DISK
                 THEN "backgroundSaveDoneHandlerDisk"
                 ELSE "backgroundSaveDoneHandlerSocket",
                 [pid |-> server.rdb_child_pid, exitcode |-> server.child.exitcode,
                  bysignal |-> server.child.bysignal,
                  temp |-> server.disk[TempFile(server.rdb_child_pid)],
                  dirty |-> server.dirty, since_fork |-> server.since_fork,
                  lastsave |-> server.lastsave, now |-> server.unixtime], 0)
    /\ UNCHANGED saveOther

\* rdbSaveToSlavesSockets, called for replicas that wait for a transfer;
\* fork gives the pid of a new process
SlavesSocketsSave(piped, childpid) ==
    /\ childpid \notin server.running
    /\ \E r \in {rdbSaveToSlavesSockets(server, piped, childpid)} :
        /\ server' = r.server
        /\ last' = L("rdbSaveToSlavesSockets", childpid, r.ret)
    /\ UNCHANGED saveOther

\* the child sent the stream to the replicas, or failed to, and leaves
\* with exitFromChild((retval == C_OK) ? 0 : 1)
ChildTransfer(retval) ==
    /\ server.child.pc = "transfer"
    /\ server' = [server EXCEPT !.child.pc = "exited",
                                !.child.exitcode = IF retval = C_OK THEN 0 ELSE 1]
    /\ last' = L("transfer", 0, retval)
    /\ UNCHANGED saveOther

\* a rewrite of the append-only file starts and ends (its code is not
\* among the sources: it may start and end at any time)
AofRewriteStart(childpid) ==
    /\ server.aof_child_pid = -1
    /\ childpid \notin server.running
    /\ server' = [server EXCEPT !.aof_child_pid = childpid]
    /\ last' = L("aofRewriteStart", childpid, C_OK)
    /\ UNCHANGED saveOther

AofRewriteDone ==
    /\ server.aof_child_pid # -1
    /\ server' = [server EXCEPT !.aof_child_pid = -1]
    /\ last' = L("aofRewriteDone", 0, C_OK)
    /\ UNCHANGED saveOther
\* ------------------------------------------- actions of the bio threads
dictVars == <<d, dict_can_resize, unlinked, iter, kv, scan>>

\* pthread_cond_signal / pthread_cond_broadcast: a thread waiting on the
\* condition variable of kind t is woken (there is one such thread at most)
Signal_Lost(threads, t) == threads
Signal(threads, t) ==
    IF threads[t].pc = "newjob_wait"
    THEN [threads EXCEPT ![t].pc = "newjob_woken"] ELSE threads

Broadcast(c, t) ==
    IF c.pc = "step_wait" /\ c.type = t THEN [c EXCEPT !.pc = "step_woken"] ELSE c

\* number of jobs created so far
Created == Len(history.submitted[0]) +
           (IF NumKinds > 1 THEN Len(history.submitted[NumKinds - 1]) ELSE 0) +
           (IF NumKinds > 2 THEN Len(history.submitted[1]) ELSE 0)

\* bioCreateBackgroundJob: zmalloc and fill the job, lock
BioCreateLock(t) ==
    /\ caller.pc = "idle" /\ bio_mutex[t] = FREE
    /\ bio_mutex' = [bio_mutex EXCEPT ![t] = MAIN]
    /\ caller' = [Idle EXCEPT !.pc = "create", !.type = t,
                              !.job = [id |-> Created + 1]]
    /\ history' = [history EXCEPT !.submitted[t] = Append(@, [id |-> Created + 1]),
                                  !.waits[t] = 0]
    /\ UNCHANGED <<zm, rdb, server, dictVars, last, bio_jobs, bio_pending, bio_thread>>

\* ... listAddNodeTail, bio_pending++, signal, unlock
BioCreateUnlock(t) ==
    /\ caller.pc = "create" /\ caller.type = t
    /\ bio_jobs' = [bio_jobs EXCEPT ![t] = listAddNodeTail(@, caller.job)]
    /\ bio_pending' = [bio_pending EXCEPT ![t] = @ + 1]
    /\ bio_thread' = Signal(bio_thread, t)
    /\ bio_mutex' = [bio_mutex EXCEPT ![t] = FREE]
    /\ caller' = [caller EXCEPT !.pc = "idle"]
    /\ last' = L("bioCreateBackgroundJob", t, 0)
    /\ UNCHANGED <<zm, rdb, server, dictVars, history>>

\* bioPendingJobsOfType: lock
BioPendingLock(t) ==
    /\ caller.pc = "idle" /\ bio_mutex[t] = FREE
    /\ bio_mutex' = [bio_mutex EXCEPT ![t] = MAIN]
    /\ caller' = [Idle EXCEPT !.pc = "pending", !.type = t]
    /\ UNCHANGED <<zm, rdb, server, dictVars, last, bio_jobs, bio_pending, bio_thread, history>>

\* ... val = bio_pending[type], unlock, return val
BioPendingUnlock(t) ==
    /\ caller.pc = "pending" /\ caller.type = t
    /\ bio_mutex' = [bio_mutex EXCEPT ![t] = FREE]
    /\ caller' = [caller EXCEPT !.pc = "idle"]
    /\ last' = L("bioPendingJobsOfType", t, bio_pending[t])
    /\ UNCHANGED <<zm, rdb, server, dictVars, bio_jobs, bio_pending, bio_thread, history>>

\* bioWaitStepOfType: lock
BioWaitLock(t) ==
    /\ caller.pc = "idle" /\ bio_mutex[t] = FREE
    /\ bio_mutex' = [bio_mutex EXCEPT ![t] = MAIN]
    /\ caller' = [Idle EXCEPT !.pc = "wait", !.type = t]
    /\ UNCHANGED <<zm, rdb, server, dictVars, last, bio_jobs, bio_pending, bio_thread, history>>

\* ... val = bio_pending[type]; if (val != 0) pthread_cond_wait gives the
\* mutex up and blocks; otherwise unlock and return val.  Ghost: `mark` is
\* the number of jobs of the kind that have been completed (executed and
\* taken off the list) when the thread begins to wait.
BioWaitCheck(t) ==
    /\ caller.pc = "wait" /\ caller.type = t
    /\ bio_mutex' = [bio_mutex EXCEPT ![t] = FREE]
    /\ IF bio_pending[t] # 0
       THEN /\ caller' = [caller EXCEPT !.pc = "step_wait", !.waited = TRUE,
                                        !.mark = Len(history.submitted[t]) - bio_pending[t]]
            /\ UNCHANGED <<last, history>>
       ELSE /\ caller' = [caller EXCEPT !.pc = "idle"]
            /\ last' = L("bioWaitStepOfType", t, 0)
            /\ history' = [history EXCEPT !.waits[t] = @ + 1]
    /\ UNCHANGED <<zm, rdb, server, dictVars, bio_jobs, bio_pending, bio_thread>>

\* pthread_cond_wait may return without a signal (a spurious wakeup)
BioWaitSpurious ==
    /\ caller.pc = "step_wait"
    /\ caller' = [caller EXCEPT !.pc = "step_woken"]
    /\ UNCHANGED <<zm, rdb, server, dictVars, last, bio_jobs, bio_pending, bio_mutex, bio_thread, history>>

\* pthread_cond_wait returns with the mutex locked again
BioWaitRelock(t) ==
    /\ caller.pc = "step_woken" /\ caller.type = t /\ bio_mutex[t] = FREE
    /\ bio_mutex' = [bio_mutex EXCEPT ![t] = MAIN]
    /\ caller' = [caller EXCEPT !.pc = "waited"]
    /\ UNCHANGED <<zm, rdb, server, dictVars, last, bio_jobs, bio_pending, bio_thread, history>>

\* ... val = bio_pending[type], unlock, return val
BioWaitUnlock(t) ==
    /\ caller.pc = "waited" /\ caller.type = t
    /\ bio_mutex' = [bio_mutex EXCEPT ![t] = FREE]
    /\ caller' = [caller EXCEPT !.pc = "idle"]
    /\ last' = L("bioWaitStepOfType", t, bio_pending[t])
    /\ history' = [history EXCEPT !.waits[t] = @ + 1]
    /\ UNCHANGED <<zm, rdb, server, dictVars, bio_jobs, bio_pending, bio_thread>>

\* bioProcessBackgroundJobs: the lock taken before the loop, and the one
\* pthread_cond_wait takes when it returns
WorkerLock(t) ==
    /\ bio_thread[t].pc \in {"start", "newjob_woken"} /\ bio_mutex[t] = FREE
    /\ bio_mutex' = [bio_mutex EXCEPT ![t] = BIO]
    /\ bio_thread' = [bio_thread EXCEPT ![t].pc = "loop"]
    /\ UNCHANGED <<zm, rdb, server, dictVars, last, bio_jobs, bio_pending, caller, history>>

\* the top of the loop with an empty list: pthread_cond_wait gives the
\* mutex up and blocks
WorkerWait(t) ==
    /\ bio_thread[t].pc = "loop" /\ listLength(bio_jobs[t]) = 0
    /\ bio_mutex' = [bio_mutex EXCEPT ![t] = FREE]
    /\ bio_thread' = [bio_thread EXCEPT ![t].pc = "newjob_wait"]
    /\ UNCHANGED <<zm, rdb, server, dictVars, last, bio_jobs, bio_pending, caller, history>>

WorkerSpurious(t) ==
    /\ bio_thread[t].pc = "newjob_wait"
    /\ bio_thread' = [bio_thread EXCEPT ![t].pc = "newjob_woken"]
    /\ UNCHANGED <<zm, rdb, server, dictVars, last, bio_jobs, bio_pending, bio_mutex, caller, history>>

\* ln = listFirst(bio_jobs[type]); job = ln->value; unlock
WorkerPop_KeepLock(t) ==
    /\ bio_thread[t].pc = "loop" /\ listLength(bio_jobs[t]) # 0
    /\ bio_thread' = [bio_thread EXCEPT ![t] = [pc |-> "job", ln |-> listFirst(bio_jobs[t])]]
    /\ UNCHANGED <<zm, rdb, server, dictVars, last, bio_jobs, bio_pending, bio_mutex, caller, history>>

WorkerPop(t) ==
    /\ bio_thread[t].pc = "loop" /\ listLength(bio_jobs[t]) # 0
    /\ bio_thread' = [bio_thread EXCEPT ![t] = [pc |-> "job", ln |-> listFirst(bio_jobs[t])]]
    /\ bio_mutex' = [bio_mutex EXCEPT ![t] = FREE]
    /\ UNCHANGED <<zm, rdb, server, dictVars, last, bio_jobs, bio_pending, caller, history>>

\* the job itself (close, fsync or lazy free) and zfree(job)
WorkerJob(t) ==
    /\ bio_thread[t].pc = "job"
    /\ history' = [history EXCEPT !.executed[t] = Append(@, bio_thread[t].ln)]
    /\ bio_thread' = [bio_thread EXCEPT ![t].pc = "relock"]
    /\ UNCHANGED <<zm, rdb, server, dictVars, last, bio_jobs, bio_pending, bio_mutex, caller>>

\* lock again
WorkerRelock(t) ==
    /\ bio_thread[t].pc = "relock" /\ bio_mutex[t] = FREE
    /\ bio_mutex' = [bio_mutex EXCEPT ![t] = BIO]
    /\ bio_thread' = [bio_thread EXCEPT ![t].pc = "done"]
    /\ UNCHANGED <<zm, rdb, server, dictVars, last, bio_jobs, bio_pending, caller, history>>

\* listDelNode, bio_pending--, broadcast; back to the top of the loop
WorkerDone(t) ==
    /\ bio_thread[t].pc = "done"
    /\ bio_jobs' = [bio_jobs EXCEPT ![t] = listDelNode(@, bio_thread[t].ln)]
    /\ bio_pending' = [bio_pending EXCEPT ![t] = PendingAfterJob(@)]
    /\ caller' = Broadcast(caller, t)
    /\ bio_thread' = [bio_thread EXCEPT ![t] = [pc |-> "loop", ln |-> NoJob]]
    /\ UNCHANGED <<zm, rdb, server, dictVars, last, bio_mutex, history>>

\* The process runs until an assertion fails.  A caller that detached an
\* entry releases it before its next call on the dictionary (the pattern
\* the comment of dictUnlink gives).
Running == ~d.aborted
Holding == unlinked # <<>>
Call == Running /\ ~Holding

\* the insert / remove / resize interface
Next ==
    \/ \E k \in Keys, v \in Vals : Call /\ DictAdd(k, v)
    \/ \E k \in Keys : Call /\ DictAddRaw(k)
    \/ \E k \in Keys, v \in Vals : Call /\ DictReplace(k, v)
    \/ \E k \in Keys : Call /\ DictFind(k)
    \/ \E k \in Keys : Call /\ DictDelete(k)
    \/ \E k \in Keys : Call /\ DictUnlink(k)
    \/ \E size \in 0..MaxExpand : Call /\ DictExpand(size)
    \/ Call /\ DictResize
    \/ \E n \in 0..MaxSteps : Call /\ DictRehash(n)
    \/ \E i \in 0..Len(unlinked) : Running /\ DictFreeUnlinkedEntry(i)

Spec == Init /\ [][Next]_vars

\* a caller that switches automatic resizing on and off
NextResize ==
    \/ \E k \in KeysResize : Call /\ DictAddOrFind(k)
    \/ \E k \in KeysResize : Call /\ DictDelete(k)
    \/ \E size \in 0..MaxExpand : Call /\ DictExpand(size)
    \/ Call /\ DictResize
    \/ \E n \in 0..MaxSteps : Call /\ DictRehash(n)
    \/ Call /\ DictEnableResize
    \/ Call /\ DictDisableResize

SpecResize == Init /\ [][NextResize]_vars

\* a safe iterator and the calls made while it is held (random() gives
\* dictGetSomeKeys 0 here: what it samples plays no part) (the values stored
\* play no part in it: the caller stores one value)
NextIter ==
    \/ \E k \in Keys : Call /\ DictAdd(k, 1)
    \/ \E k \in Keys : Call /\ DictFind(k)
    \/ \E k \in Keys : Call /\ DictDelete(k)
    \/ \E n \in 0..MaxSteps : Call /\ DictRehash(n)
    \/ \E chunks \in 1..MaxChunks : Call /\ DictRehashMilliseconds(chunks)
    \/ Call /\ DictGetRandomKey
    \/ \E count \in 0..MaxSteps : Call /\ DictGetSomeKeys(count, <<0>>)
    \/ Call /\ DictGetSafeIterator
    \/ Call /\ DictNext
    \/ Call /\ DictReleaseIterator

SpecIter == Init /\ [][NextIter]_vars

\* one walk over the whole dict with a safe iterator: the caller fills the
\* dict with the keys 1, 2, ... in this order (adding a key again makes a
\* rehash step), and from the first dictNext to the last it inserts any
\* keys and deletes the entry dictNext has just returned
JustReturned(k) == iter.entry = <<k>> /\ ~iter.done
Filling(k) == ~iter.live /\ k <= dictSize(d) + 1
Started == iter.live /\ ~(iter.index = -1 /\ iter.table = 0) /\ ~iter.done
Walking == Call /\ last.op # "dictReleaseIterator"
NextWalk ==
    \/ \E k \in KeysResize : Walking /\ Filling(k) /\ DictAdd(k, 1)
    \/ \E k \in KeysResize : Walking /\ Started /\ DictAdd(k, 1)
    \/ \E k \in KeysResize : Walking /\ JustReturned(k) /\ DictDelete(k)
    \/ Walking /\ DictGetSafeIterator
    \/ Walking /\ WalkNext
    \/ Walking /\ DictReleaseIterator

SpecWalk == Init /\ [][NextWalk]_vars

\* a safe iterator and a caller that fills, changes and empties the dict
NextEmpty ==
    \/ \E k \in Keys : Call /\ DictAdd(k, 1)
    \/ \E k \in Keys : Call /\ DictDelete(k)
    \/ Call /\ DictEmpty
    \/ Call /\ DictGetSafeIterator
    \/ Call /\ DictNext
    \/ Call /\ DictReleaseIterator

SpecEmpty == Init /\ [][NextEmpty]_vars

\* a fast (non-safe) iterator and calls that change the tables while it is
\* held (the rehash advances by the steps dictAdd and dictDelete make)
NextFast ==
    \/ \E k \in Keys : Call /\ DictAdd(k, 1)
    \/ \E k \in Keys : Call /\ DictDelete(k)
    \/ Call /\ DictGetIterator
    \/ Call /\ DictNext
    \/ Call /\ DictReleaseIterator

SpecFast == Init /\ [][NextFast]_vars

\* a dictScan traversal while keys come and go, the table grows and shrinks
\* (dictExpand, dictResize) and rehash steps run
NextScan ==
    \/ \E k \in KeysScan : Call /\ DictAdd(k, 1)
    \/ \E k \in KeysScan : Call /\ DictDelete(k)
    \/ \E size \in {2 * DICT_HT_INITIAL_SIZE, 4 * DICT_HT_INITIAL_SIZE} : Call /\ DictExpand(size)
    \/ Call /\ DictResize
    \/ \E n \in 1..MaxSteps : Call /\ DictRehash(n)
    \/ Call /\ DictScan

SpecScan == Init /\ [][NextScan]_vars

\* the values random() can return to one call of dictGetSomeKeys
Randoms == {<<a, b>> : a \in 0..MaxRandom, b \in 0..MaxRandom}

\* a caller that samples entries while keys come and go, the table is
\* resized and rehash steps run
NextSome ==
    \/ \E k \in KeysScan : Call /\ DictAdd(k, 1)
    \/ \E k \in KeysScan : Call /\ DictDelete(k)
    \/ \E size \in {2 * DICT_HT_INITIAL_SIZE, 4 * DICT_HT_INITIAL_SIZE} : Call /\ DictExpand(size)
    \/ \E n \in 1..MaxSteps : Call /\ DictRehash(n)
    \/ \E count \in 0..MaxSteps, rnd \in Randoms : Call /\ DictGetSomeKeys(count, rnd)

SpecSome == Init /\ [][NextSome]_vars

\* the bio threads: a caller that creates jobs, asks for the pending count
\* and waits for a step, and the workers
NextBio ==
    \/ \E t \in Kinds : Created < MaxJobs /\ BioCreateLock(t)
    \/ \E t \in Kinds : BioCreateUnlock(t)
    \/ \E t \in Kinds : BioPendingLock(t)
    \/ \E t \in Kinds : BioPendingUnlock(t)
    \/ \E t \in Kinds : history.waits[t] < MaxWaits /\ BioWaitLock(t)
    \/ \E t \in Kinds : BioWaitCheck(t)
    \/ BioWaitSpurious
    \/ \E t \in Kinds : BioWaitRelock(t)
    \/ \E t \in Kinds : BioWaitUnlock(t)
    \/ \E t \in Kinds : WorkerLock(t)
    \/ \E t \in Kinds : WorkerWait(t)
    \/ \E t \in Kinds : WorkerSpurious(t)
    \/ \E t \in Kinds : WorkerPop(t)
    \/ \E t \in Kinds : WorkerJob(t)
    \/ \E t \in Kinds : WorkerRelock(t)
    \/ \E t \in Kinds : WorkerDone(t)

SpecBio == Init /\ [][NextBio]_vars

\* The bio threads with their scheduling: a caller that creates jobs and
\* asks for the pending count, and the workers.  A thread that holds a
\* mutex goes on to its unlock, a worker that can take a step takes it, and
\* a worker waiting for the mutex gets it at one of the times it is free.
\* A spurious wakeup is never owed to anyone.
NextJobs ==
    \/ \E t \in Kinds : Created < MaxJobs /\ BioCreateLock(t)
    \/ \E t \in Kinds : BioCreateUnlock(t)
    \/ \E t \in Kinds : BioPendingLock(t)
    \/ \E t \in Kinds : BioPendingUnlock(t)
    \/ \E t \in Kinds : WorkerLock(t)
    \/ \E t \in Kinds : WorkerWait(t)
    \/ \E t \in Kinds : WorkerSpurious(t)
    \/ \E t \in Kinds : WorkerPop(t)
    \/ \E t \in Kinds : WorkerJob(t)
    \/ \E t \in Kinds : WorkerRelock(t)
    \/ \E t \in Kinds : WorkerDone(t)

SpecJobs == Init /\ [][NextJobs]_vars

MainUnlocks == \E t \in Kinds : BioCreateUnlock(t) \/ BioPendingUnlock(t)
WorkerSteps(t) == WorkerWait(t) \/ WorkerPop(t) \/ WorkerJob(t) \/ WorkerDone(t)
WorkerLocks(t) == WorkerLock(t) \/ WorkerRelock(t)

SpecJobsFair ==
    /\ SpecJobs
    /\ WF_vars(MainUnlocks)
    /\ \A t \in Kinds : WF_vars(WorkerSteps(t)) /\ SF_vars(WorkerLocks(t))

\* The caller that fills the dict with automatic resizing on or off.
NextGrow ==
    \/ Call /\ dictSize(d) < NumKeysGrow /\ DictAddNext
    \/ Call /\ dictSize(d) > 0 /\ DictDeleteLast
    \/ Call /\ DictEnableResize
    \/ Call /\ DictDisableResize

SpecGrow == Init /\ [][NextGrow]_vars

\* The caller of the allocator.
NextMem ==
    \/ \E size \in AllocSizes : Zmalloc(size)
    \/ \E size \in AllocSizes : Zcalloc(size)
    \/ \E ptr \in Ptrs \cup {NULL}, size \in AllocSizes : Zrealloc(ptr, size)
    \/ \E ptr \in Ptrs \cup {NULL} : Zfree(ptr)


SpecMem == Init /\ [][NextMem]_vars

\* the main thread and a background worker in the allocator at once
NextThreads ==
    \/ \E t \in Threads, size \in ThreadSizes : ThreadMalloc(t, size)
    \/ \E t \in Threads, ptr \in Ptrs, size \in ThreadSizes : ThreadRealloc(t, ptr, size)
    \/ \E t \in Threads, ptr \in Ptrs : ThreadFree(t, ptr)
    \/ \E t \in Threads : ThreadLoad(t)
    \/ \E t \in Threads : ThreadStore(t)
    \/ \E t \in Threads : ThreadFreeBlock(t)

SpecThreads == Init /\ [][NextThreads]_vars

\* The caller that saves one length and loads it back.
NextLen ==
    \/ rdb.pc = "idle" /\ \E len \in Lens : RdbSaveLen(len)
    \/ RdbLoadLen

SpecLen == Init /\ [][NextLen]_vars


\* The caller that saves one string and loads it back.
NextStr ==
    \/ rdb.pc = "idle" /\ \E s \in SavedStrings : RdbSaveRawString(s)
    \/ \E flags \in LoadFlags : RdbLoadString(flags)

SpecStr == Init /\ [][NextStr]_vars
\* The caller that saves the databases and loads the file back.
NextRio ==
    \/ rdb.pc = "idle" /\ \E sv \in Savers : RdbSaveRio(sv)
    \/ rdb.pc = "rio_saved"
       /\ \E pos \in DamagedAt(rdb.file), byte \in DamagedTo : RdbDamage(pos, byte)
    \/ \E cfg \in Loaders : RdbLoadRio(cfg)

SpecRio == Init /\ [][NextRio]_vars


\* the server saving: commands, SAVE, BGSAVE, the child and its end
NextSave ==
    \/ Command
    \/ Tick
    \/ \E env \in Envs : SaveCommand(env)
    \/ \E childpid \in ChildPids \cup {-1} : BgsaveCommand(childpid)
    \/ \E env \in Envs : ChildOpen(env)
    \/ \E env \in Envs : ChildWrite(env)
    \/ \E env \in Envs : ChildRename(env)
    \/ \E sig \in {SIGKILL, SIGUSR1} : ChildKilled(sig)
    \/ BackgroundSaveDone

SpecSave == Init /\ [][NextSave]_vars

\* the server and its snapshot children: SAVE, BGSAVE, a transfer to the
\* replicas, a rewrite of the append-only file, the children and their end
NextChildren ==
    \/ \E env \in Envs : SaveCommand(env)
    \/ \E childpid \in ChildPids \cup {-1} : BgsaveCommand(childpid)
    \/ \E piped \in BOOLEAN, childpid \in ChildPids \cup {-1} : SlavesSocketsSave(piped, childpid)
    \/ \E childpid \in ChildPids : AofRewriteStart(childpid)
    \/ AofRewriteDone
    \/ \E env \in Envs : ChildOpen(env)
    \/ \E env \in Envs : ChildWrite(env)
    \/ \E env \in Envs : ChildRename(env)
    \/ \E retval \in {C_OK, C_ERR} : ChildTransfer(retval)
    \/ \E sig \in {SIGKILL, SIGUSR1} : ChildKilled(sig)
    \/ BackgroundSaveDone

SpecChildren == Init /\ [][NextChildren]_vars

\* one rdbSaveRio, called without replication information (rsi NULL) or
\* with it
NextLayout ==
    \/ rdb.pc = "idle" /\ \E sv \in {x \in LayoutSavers : x.rsi = <<>>} : RdbSaveRio(sv)
    \/ rdb.pc = "idle" /\ \E sv \in {x \in LayoutSavers : x.rsi # <<>>} : RdbSaveRio(sv)

SpecLayout == Init /\ [][NextLayout]_vars

\* rdbLoadRio of the streams put together by hand
NextRuns ==
    \/ rdb.pc = "idle" /\ \E rs \in RunsOfStream : RdbCompose(rs)
    \/ \E cfg \in Loaders : RdbLoadRio(cfg)

SpecRuns == Init /\ [][NextRuns]_vars

\* The caller that waits for the end of a rehash: it adds and removes a few
\* keys, asks for tables of 16 and 32 buckets or for the smallest table,
\* and calls dictRehash with n >= 1 again and again.
DrainKeys == {1, 4, 5}
DrainSizes == {16, 32}
NextDrain ==
    \/ \E k \in DrainKeys : Call /\ DictAdd(k, 1)
    \/ \E k \in DrainKeys : Call /\ DictDelete(k)
    \/ \E size \in DrainSizes : Call /\ DictExpand(size)
    \/ Call /\ DictResize
    \/ \E n \in 1..MaxSteps : Call /\ DictRehash(n)

SpecDrain == Init /\ [][NextDrain]_vars
\* the caller never stops calling dictRehash
SpecDrainFair == SpecDrain /\ WF_vars(\E n \in 1..MaxSteps : Call /\ DictRehash(n))
\* ------------------------------------------------------- properties
\* the caller's view: the keys inserted and not since removed
Present(k) == kv[k] # ABSENT
PresentKeys == {k \in AllKeys : Present(k)}

\* the entries reachable from the bucket heads of table t, as <<bucket,
\* position in the chain>>, and the keys they hold
Reachable(dd, t) ==
    UNION {{<<i, p>> : p \in 1..Len(dd.ht[t].table[i])} : i \in DOMAIN dd.ht[t].table}
KeysIn(dd, t) ==
    {dd.ht[t].table[ip[1]][ip[2]].key : ip \in Reachable(dd, t)}

\* C1: after any sequence of dictAdd, dictAddRaw, dictReplace, dictDelete,
\* dictUnlink, dictExpand, dictResize and dictRehash calls, dictSize is the
\* number of keys inserted and not since removed, each table's used count is
\* the number of entries reachable from its bucket heads, and those entries
\* hold exactly the present keys.
C1_SizeIsCount ==
    /\ dictSize(d) = Cardinality(PresentKeys)
    /\ \A t \in {0, 1} : d.ht[t].used = Cardinality(Reachable(d, t))
    /\ KeysIn(d, 0) \cup KeysIn(d, 1) = PresentKeys

\* a removal succeeded while the entries are split between the two tables
C1_Witness ==
    /\ last.op \in {"dictDelete", "dictUnlink"} /\ last.ret = IF last.op = "dictDelete" THEN DICT_OK ELSE 1
    /\ dictIsRehashing(d) /\ d.ht[0].used >= 1 /\ d.ht[1].used >= 2

\* C2: in every reachable state, rehash in progress or not, dictFind(k)
\* returns an entry with key k if and only if k is in the dictionary, and
\* that entry holds the value bound to k; after a successful dictAdd(k, v)
\* it returns the entry holding v, after a successful dictDelete(k) it
\* returns NULL.
C2_FindIffPresent ==
    \A k \in AllKeys :
        /\ LET r == dictFind(d, k)
           IN  /\ r.he # NoEntry <=> Present(k)
               /\ r.he # NoEntry => EntryAt(r.d, r.he[1]) = [key |-> k, val |-> kv[k][1]]
        /\ \A v \in Vals :
               LET a == dictAdd(d, k, v)
               IN  a.ret = DICT_OK =>
                       LET r == dictFind(a.d, k)
                       IN  /\ r.he # NoEntry
                           /\ EntryAt(r.d, r.he[1]) = [key |-> k, val |-> v]
        /\ LET x == dictDelete(d, k)
           IN  x.ret = DICT_OK => dictFind(x.d, k).he = NoEntry

\* dictFind found a key while both tables hold entries
C2_Witness ==
    /\ last.op = "dictFind" /\ last.ret = 1
    /\ dictIsRehashing(d) /\ d.ht[0].used >= 1 /\ d.ht[1].used >= 1

IsPowerOfTwo(p) == \E e \in 0..30 : p = 2^e
SmallestPowerOfTwoAtLeast(n) ==
    CHOOSE p \in 1..(2 * n + 1) :
        /\ IsPowerOfTwo(p) /\ p >= n
        /\ \A q \in 1..(p - 1) : ~(IsPowerOfTwo(q) /\ q >= n)
Max(a, b) == IF a >= b THEN a ELSE b
Sizes == 0..MaxExpand

\* the table a successful dictExpand on dd has allocated in its result r
Allocated(dd, r) == IF IsNull(dd.ht[0].table) THEN r.d.ht[0] ELSE r.d.ht[1]

\* C4 (as the code has it): dictExpand(d, size) returns DICT_ERR whenever a
\* rehash is in progress or size is less than used(T0); a size equal to
\* used(T0) is accepted.  It returns DICT_ERR in one more case only: the size
\* rounded up to a power of two equals the current size of T0.
C4_ExpandErrors ==
    \A size \in Sizes :
        LET r == dictExpand(d, size)
        IN  /\ (dictIsRehashing(d) \/ size < d.ht[0].used) => r.ret = DICT_ERR
            /\ r.ret = DICT_ERR <=>
                   \/ dictIsRehashing(d)
                   \/ size < d.ht[0].used
                   \/ SmallestPowerOfTwoAtLeast(Max(size, DICT_HT_INITIAL_SIZE)) = d.ht[0].size
            /\ r.ret \in {DICT_OK, DICT_ERR}

\* C4 as stated: DICT_ERR whenever a rehash is in progress or size is less
\* than or equal to used(T0).
C4_ErrWhenNotAboveUsed ==
    \A size \in Sizes :
        (dictIsRehashing(d) \/ size <= d.ht[0].used) => dictExpand(d, size).ret = DICT_ERR

\* dictExpand was given a size equal to used(T0), with no rehash in
\* progress, and started one
C4_Witness ==
    /\ last.op = "dictExpand" /\ last.ret = DICT_OK
    /\ dictIsRehashing(d) /\ d.rehashidx = 0 /\ d.ht[0].used = last.arg
    /\ last.arg >= 1

Runs(evs, what, k) ==
    Cardinality({i \in 1..Len(evs) : evs[i].e = what /\ evs[i].key = k})

\* C7: dictAddOrFind(k) never returns NULL: in every reachable state it
\* returns the entry whose key is k, the existing one (nothing allocated, the
\* count unchanged) when k was present and a newly inserted one otherwise,
\* and the expand made inside the index computation does not fail.
C7_AddOrFindNeverNull ==
    /\ _dictExpandIfNeeded(d).ret = DICT_OK
    /\ _dictExpandIfNeeded(_dictRehashStep(d)).ret = DICT_OK
    /\ \A k \in AllKeys :
           LET r == dictAddOrFind(d, k)
           IN  /\ r.entry # NoEntry
               /\ ~r.d.aborted
               /\ EntryAt(r.d, r.entry[1]).key = k
               /\ IF Present(k)
                  THEN /\ EntryAt(r.d, r.entry[1]).val = kv[k][1]
                       /\ dictSize(r.d) = dictSize(d)
                       /\ r.ev = <<>>
                  ELSE /\ dictSize(r.d) = dictSize(d) + 1
                       /\ r.ev = <<Ev("zmalloc", k, UNSET)>>

\* dictAddOrFind has returned an entry it inserted into the table the
\* automatic expand had allocated
C7_Witness ==
    /\ last.op = "dictAddOrFind" /\ last.ret = 1
    /\ dictIsRehashing(d) /\ d.ht[1].size = 2 * d.ht[0].size
    /\ d.ht[0].used + d.ht[1].used = d.ht[0].size + 1

C9_UnlinkThenFree ==
    /\ dictFreeUnlinkedEntry(NoEntry) = <<>>
    /\ \A i \in 1..Len(unlinked) :
           ~Present(unlinked[i].key) /\ PlaceOf(d, unlinked[i].key) = NoEntry
    /\ \A k \in AllKeys :
           LET u == dictUnlink(d, k)
               x == dictDelete(d, k)
           IN  IF Present(k)
               THEN /\ u.he = <<[key |-> k, val |-> kv[k][1]]>>
                    /\ u.ev = <<>>
                    /\ dictFind(u.d, k).he = NoEntry
                    /\ dictSize(u.d) = dictSize(d) - 1
                    /\ Runs(dictFreeUnlinkedEntry(u.he), "keyDestructor", k) = 1
                    /\ Runs(dictFreeUnlinkedEntry(u.he), "valDestructor", k) = 1
                    /\ x.ret = DICT_OK /\ x.d = u.d
                    /\ Runs(x.ev, "keyDestructor", k) = 1
                    /\ Runs(x.ev, "valDestructor", k) = 1
               ELSE /\ u.he = NoEntry /\ u.ev = <<>>
                    /\ x.ret = DICT_ERR /\ x.ev = <<>>

\* the caller has released an entry it had detached with dictUnlink
C9_Witness ==
    /\ last.op = "dictFreeUnlinkedEntry" /\ last.arg >= 1 /\ last.ret = 3
    /\ unlinked = <<>> /\ dictSize(d) >= 1


\* a step of the dictionary in which the rehash cursor of a rehash in
\* progress changes, or an entry of T0 is found in T1 afterwards
CursorAdvances == d.rehashidx # -1 /\ d'.rehashidx # d.rehashidx
EntryMoves == \E k \in AllKeys : k \in KeysIn(d, 0) /\ k \in KeysIn(d', 1)

\* C10 as stated: from the creation of a safe iterator until its release,
\* the rehash cursor does not advance and no entry moves from T0 to T1,
\* whichever of dictAdd, dictFind, dictDelete, dictGetRandomKey,
\* dictGetSomeKeys, dictRehash, dictRehashMilliseconds is called in between.
C10_SafeIteratorStopsRehash ==
    [][(iter.live /\ iter.safe /\ iter'.live) => ~CursorAdvances /\ ~EntryMoves]_vars

\* C10, for an iterator that dictNext has registered in d->iterators: the
\* same, from the first dictNext until the release.
C10_RegisteredIteratorStopsRehash ==
    [][(d.iterators > 0 /\ d'.iterators > 0) => ~CursorAdvances /\ ~EntryMoves]_vars

\* C10, what the code does: while d->iterators is not zero, the calls that
\* rehash through _dictRehashStep (dictAdd, dictFind, dictDelete,
\* dictGetRandomKey, dictGetSomeKeys) leave the cursor and the entries where
\* they are; dictRehash and dictRehashMilliseconds do not look at it.
C10_RehashStepStopped ==
    [][(d.iterators > 0 /\ d'.iterators > 0
        /\ last'.op \notin {"dictRehash", "dictRehashMilliseconds"})
           => ~CursorAdvances /\ ~EntryMoves]_vars


\* C11 as stated: while a safe iterator is in use and the caller calls
\* dictAdd, dictFind and dictDelete on any keys between dictNext calls, every
\* entry dictNext returns is an entry currently in the dictionary, never one
\* that was removed and freed.
C11_NextReturnsLiveEntry ==
    (iter.live /\ iter.safe /\ last.op = "dictNext") => ~iter.freed

FirstNext == iter.index = -1 /\ iter.table = 0
ReleaseOfFast == iter.live /\ ~iter.safe /\ last'.op = "dictReleaseIterator"

ScanDone == last.op = "dictScan" /\ last.ret = 0 /\ scan.size > 0

\* the buckets of the two tables that belong to cursor v: the bucket of the
\* smaller table the cursor points at, and the buckets of the larger table
\* whose low bits are that index
Expansion(dd, v) ==
    Let(IF dd.ht[0].size < dd.ht[1].size THEN 0 ELSE 1, LAMBDA small :
        {<<small, v % dd.ht[small].size>>} \cup
        {<<1 - small, j>> : j \in {i \in 0..(dd.ht[1 - small].size - 1) :
                                      i % dd.ht[small].size = v % dd.ht[small].size}})

\* the buckets a call visits
Visited(r) == {r.buckets[i] : i \in 1..Len(r.buckets)}

\* the smaller and the larger table of a rehash in progress
Smaller(dd) == IF dd.ht[0].size < dd.ht[1].size THEN 0 ELSE 1
Larger(dd) == 1 - Smaller(dd)

C14_ScanShrinkMissesNone ==
    (~scan.active /\ last.op = "dictScan" /\ scan.size > 0) => scan.stay \ scan.pending = scan.stay

\* a traversal with keys that stayed ended while the rehash into a smaller
\* table than the one it began with was in progress
C14_Witness ==
    /\ ScanDone /\ scan.stay # {}
    /\ dictIsRehashing(d) /\ d.ht[1].size < scan.size

\* what C15 says of one call, but for the number of buckets read
SomeKeysSound(dd, count, r) ==
    /\ r.ret <= count /\ r.ret <= dictSize(dd) /\ Len(r.des) = r.ret
    /\ \A n \in 1..Len(r.des) :
           /\ r.des[n].t = 0 \/ dictIsRehashing(r.d)
           /\ r.des[n].idx \in DOMAIN r.d.ht[r.des[n].t].table
           /\ r.des[n].pos \in 1..Len(r.d.ht[r.des[n].t].table[r.des[n].idx])
           /\ Present(EntryAt(r.d, r.des[n]).key)
    /\ \A n \in 1..Len(r.reads) :
           /\ r.reads[n][1] = 0 \/ dictIsRehashing(r.d)
           /\ r.reads[n][2] \in 0..(r.d.ht[r.reads[n][1]].size - 1)

\* C15 as stated: dictGetSomeKeys(d, des, n) stores at most min(n, dictSize)
\* entries, each one an entry of the dict, reads no bucket index outside a
\* table and reads at most 10 * n buckets, rehash in progress or not.
C15_AtMostTenTimesCountBuckets ==
    \A count \in 0..MaxSteps, rnd \in Randoms :
        Let(dictGetSomeKeys(d, count, rnd), LAMBDA r :
            /\ SomeKeysSound(d, count, r)
            /\ Len(r.reads) <= 10 * count)

\* C15: dictGetSomeKeys(d, des, n) stores at most min(n, dictSize) entries,
\* each one an entry of the dict, and reads no bucket index outside a table;
\* it takes at most 10 * min(n, dictSize) passes through its loop, each of
\* which reads at most one bucket of each table in use: at most 10 * n
\* buckets when no rehash is in progress, at most 20 * n when one is.
C15_SomeKeys ==
    \A count \in 0..MaxSteps, rnd \in Randoms :
        Let(dictGetSomeKeys(d, count, rnd), LAMBDA r :
            /\ SomeKeysSound(d, count, r)
            /\ r.steps <= 10 * count /\ r.steps <= 10 * dictSize(d)
            /\ Len(r.reads) <= (IF dictIsRehashing(r.d) THEN 2 ELSE 1) * r.steps)

\* a call made with a rehash in progress has given up before it had the
\* entries asked for
C15_Witness ==
    /\ last.op = "dictGetSomeKeys" /\ last.arg >= 1 /\ last.ret < last.arg
    /\ dictSize(d) >= last.arg /\ dictIsRehashing(d)

\* ------------------------------------------- properties of the bio threads
IsPrefix(s, t) == Len(s) <= Len(t) /\ \A i \in 1..Len(s) : s[i] = t[i]

\* C16: for each kind, the jobs the worker has executed are, in order, the
\* first jobs bioCreateBackgroundJob was called for, in every reachable
\* state of every interleaving of the caller and the workers.
C16_FifoPerKind ==
    \A t \in Kinds : IsPrefix(history.executed[t], history.submitted[t])

\* the worker has executed the first job of a kind and is at the second
\* while the caller is inside bioCreateBackgroundJob with the third
C16_Witness ==
    /\ Len(history.executed[0]) = 1 /\ bio_thread[0].pc = "job"
    /\ caller.pc = "create" /\ caller.type = 0 /\ Len(history.submitted[0]) = 3

\* jobs of kind t the worker has executed and not yet taken off the list
Finishing(t) == IF bio_thread[t].pc \in {"relock", "done"} THEN 1 ELSE 0

\* C17: outside bioCreateBackgroundJob's critical section the pending counter
\* of a kind is the length of its list: the jobs submitted and not executed,
\* plus the one the worker has executed and not yet taken off the list; it
\* is never less than the number of jobs not fully executed, and when
\* bioPendingJobsOfType has returned 0 every job submitted has been executed.
C17_PendingCountsUnfinished ==
    /\ \A t \in Kinds :
           /\ bio_pending[t] = Len(bio_jobs[t])
           /\ (caller.pc = "create" /\ caller.type = t) \/
                  bio_pending[t] = Len(history.submitted[t]) - Len(history.executed[t]) + Finishing(t)
    /\ (caller.pc = "idle" /\ last.op = "bioPendingJobsOfType") =>
           /\ last.ret >= Len(history.submitted[last.arg]) - Len(history.executed[last.arg])
           /\ last.ret = 0 => history.executed[last.arg] = history.submitted[last.arg]

\* bioPendingJobsOfType has returned 2 with one job in flight and one queued
C17_Witness ==
    /\ caller.pc = "idle" /\ last.op = "bioPendingJobsOfType" /\ last.ret = 2
    /\ bio_thread[last.arg].pc = "job" /\ bio_pending[last.arg] = 2

\* jobs of kind t completed: executed and taken off the list
Completed(t) == Len(history.submitted[t]) - bio_pending[t]

\* C18 as stated, for the calls that find jobs pending: when
\* bioWaitStepOfType returns, a job of the kind has been completed since the
\* call began to wait.
C18_WaitReturnsAfterAJob ==
    (caller.pc = "idle" /\ last.op = "bioWaitStepOfType" /\ caller.waited)
        => Completed(last.arg) > caller.mark

\* C19 as stated: after k calls of bioWaitStepOfType have returned since the
\* last job of a kind was submitted, at least min(k, m) of the m jobs
\* submitted have been executed (the first ones, by C16).
C19_WaitsCountJobs ==
    \A t \in Kinds :
        Len(history.executed[t]) >=
            (IF history.waits[t] < Len(history.submitted[t])
             THEN history.waits[t] ELSE Len(history.submitted[t]))

\* C20: while the worker of a kind executes a job it does not own the mutex
\* of the kind; it owns it only at the top of its loop and while it takes
\* the finished job off the list.
C20_NoMutexDuringJob ==
    \A t \in Kinds :
        /\ bio_thread[t].pc = "job" => bio_mutex[t] # BIO
        /\ bio_mutex[t] = BIO <=> bio_thread[t].pc \in {"loop", "done"}

\* the caller is inside a critical section of a kind while the worker of
\* that kind executes a job
C20_Witness ==
    \E t \in Kinds :
        /\ bio_thread[t].pc = "job" /\ bio_mutex[t] = MAIN
        /\ caller.pc \in {"create", "pending"} /\ caller.type = t

\* ------------------------------------- properties of the two tables
\* C28: in every reachable state in which the rehash cursor is -1, T1 is
\* unallocated (no bucket array, size 0, mask 0) and used(T1) is 0.
C28_NoRehashNoT1 ==
    d.rehashidx = -1 =>
        /\ IsNull(d.ht[1].table)
        /\ d.ht[1].size = 0
        /\ d.ht[1].sizemask = 0
        /\ d.ht[1].used = 0

\* a rehash into an 8-bucket table has been completed by dictRehash
C28_Witness ==
    /\ d.rehashidx = -1
    /\ last.op = "dictRehash"
    /\ d.ht[0].size = 8
    /\ d.ht[0].used > 1
    /\ IsNull(d.ht[1].table)

ChainKeys(chain) == {chain[i].key : i \in DOMAIN chain}

\* C29: while a rehash is in progress every bucket of T0 below the rehash
\* cursor is empty, and no call adds a key to any bucket of T0 for as long
\* as that rehash lasts.
C29_T0OnlyDrains ==
    [][/\ dictIsRehashing(d') =>
            \A i \in 0..(d'.rehashidx - 1) : d'.ht[0].table[i] = <<>>
       /\ (dictIsRehashing(d) /\ dictIsRehashing(d')
           /\ d'.ht[0].size = d.ht[0].size) =>
            \A i \in DOMAIN d.ht[0].table :
                ChainKeys(d'.ht[0].table[i]) \subseteq ChainKeys(d.ht[0].table[i])]_vars

\* an insert has succeeded in the middle of a rehash
C29_Witness ==
    /\ dictIsRehashing(d)
    /\ d.rehashidx > 1
    /\ last.op = "dictAdd" /\ last.ret = DICT_OK
    /\ d.ht[0].used > 0
    /\ d.ht[1].used > 1

\* ------------------------------------------- properties of the growth
\* the call made by the step is an insert
IsInsert == last'.op \in {"dictAdd", "dictAddRaw", "dictReplace", "dictAddOrFind"}

\* no rehash in progress, T0 allocated, used(T0) >= size(T0), and resizing
\* enabled or used(T0) / size(T0) > 5
GrowCondition(dd) ==
    /\ ~dictIsRehashing(dd)
    /\ ~IsNull(dd.ht[0].table)
    /\ dd.ht[0].used >= dd.ht[0].size
    /\ (dict_can_resize \/ dd.ht[0].used >= 6 * dd.ht[0].size)

\* `size` is the size of a table made for 2 * used entries
SizedForTwice(size, used) ==
    /\ IsPowerOfTwo(size)
    /\ size >= 2 * used
    /\ size \div 2 < 2 * used

\* C30 as stated, read on the state in which the insert is called: the
\* insert starts a rehash exactly when that state has no rehash in progress,
\* T0 allocated, used(T0) >= size(T0) and resizing enabled or the ratio
\* above 5, and the new table is sized for 2 * used(T0).
C30_InsertGrowsExactlyWhen ==
    [][IsInsert =>
        /\ (dictIsRehashing(d')
            /\ (~dictIsRehashing(d) \/ d'.ht[0].size # d.ht[0].size))
           <=> GrowCondition(d)
        /\ GrowCondition(d) => SizedForTwice(d'.ht[1].size, d.ht[0].used)]_vars

\* the dict as the insert's own rehash step leaves it
AfterOwnStep == IF dictIsRehashing(d) THEN _dictRehashStep(d) ELSE d

\* C30 (amended): the condition is taken on the dict as the insert's own
\* rehash step leaves it.  An insert starts a rehash exactly when, after
\* that step, no rehash is in progress, T0 is allocated, used(T0) >=
\* size(T0) and resizing is enabled or used(T0) / size(T0) > 5; the new table
\* is then sized for 2 * used(T0); with resizing disabled no insert starts a
\* rehash while used(T0) is below 6 * size(T0).
C30_InsertGrows ==
    [][IsInsert =>
        /\ (dictIsRehashing(d') /\ ~dictIsRehashing(AfterOwnStep))
           <=> GrowCondition(AfterOwnStep)
        /\ GrowCondition(AfterOwnStep) =>
              SizedForTwice(d'.ht[1].size, AfterOwnStep.ht[0].used)
        /\ (~dict_can_resize
            /\ AfterOwnStep.ht[0].used < 6 * AfterOwnStep.ht[0].size) =>
              (dictIsRehashing(d') => dictIsRehashing(AfterOwnStep))]_vars

\* with resizing disabled an insert has started the rehash of a table that
\* holds 6 entries per bucket
C30_Witness ==
    /\ ~dict_can_resize
    /\ last.op = "dictAdd" /\ last.ret = DICT_OK
    /\ d.rehashidx = 0
    /\ d.ht[0].size = 4 /\ d.ht[0].used = 24
    /\ d.ht[1].size = 64 /\ d.ht[1].used = 1

\* ------------------------------------------- properties of zmalloc
\* n rounded up to a multiple of the word size
WordAligned(n) == ((n + SIZEOF_LONG - 1) \div SIZEOF_LONG) * SIZEOF_LONG

\* C27: every update of the used-memory counter made by zmalloc, zcalloc,
\* zrealloc and zfree adds or subtracts the allocation size (the size asked
\* for and the size_t kept in front of the block) rounded up to a multiple
\* of sizeof(long).
C27_UpdatesAreWordAligned ==
    [][/\ last'.op \in {"zmalloc", "zcalloc"} =>
            zm'.used_memory - zm.used_memory
                = WordAligned(last'.arg + PREFIX_SIZE)
       /\ last'.op = "zrealloc" =>
            zm.used_memory - zm'.used_memory
                = WordAligned(zm.header[last'.ret] + PREFIX_SIZE)
                  - WordAligned(last'.arg + PREFIX_SIZE)
       /\ (last'.op = "zfree" /\ last'.arg # NULL) =>
            zm.used_memory - zm'.used_memory
                = WordAligned(zm.header[last'.arg] + PREFIX_SIZE)]_vars

\* ---------------------------------------------- properties of RDB
\* the lengths that differ from len in one byte
OneByteOff(len) ==
    {[len EXCEPT ![i] = b] : i \in 1..8, b \in LenBytes \cup {1, 128}} \ {len}

\* no length next to the one saved, and none of a few others, is written
\* as the same bytes
LenInjective ==
    \A other \in OneByteOff(rdb.len) \cup {U64(n) : n \in {0, 63, 64, 16383, 16384}} :
        other # rdb.len => rdbSaveLen(other) # rdb.file

\* C22 as stated: for every length in [0, 2^64), rdbLoadLen applied to the
\* bytes rdbSaveLen wrote returns that length, as a length: not as a special
\* encoding and not as RDB_LENERR, its error value; two different lengths
\* never give the same bytes.
C22_LenRoundTrip ==
    rdb.pc = "len_loaded" =>
        /\ rdb.loaded.len = rdb.len
        /\ rdb.loaded.isencoded = 0
        /\ rdb.loaded.len # RDB_LENERR
        /\ ~rdb.loaded.exit
        /\ LenInjective

\* C22 (amended): for every length in [0, 2^64), rdbLoadLenByRef applied to
\* the bytes rdbSaveLen wrote reads all of them, returns 0 and gives that
\* length, not a special encoding; rdbLoadLen returns the same value, which
\* differs from its error value RDB_LENERR for every length but 2^64 - 1;
\* two different lengths never give the same bytes.
C22_LenRoundTripByRef ==
    rdb.pc = "len_loaded" =>
        /\ \E r \in {rdbLoadLenByRef(rdb.file)} :
            /\ r.ret = 0 /\ r.isencoded = 0 /\ ~r.exit
            /\ r.len = rdb.len
            /\ r.rest = <<>>
        /\ rdb.loaded.len = rdb.len
        /\ rdb.loaded.isencoded = 0
        /\ rdb.loaded.len = RDB_LENERR <=> rdb.len = [i \in 1..8 |-> 255]
        /\ LenInjective

\* 16384, the first length of the 32 bit form, has been saved as
\* 0x80 0x00 0x00 0x40 0x00 and loaded
C22_Witness ==
    /\ rdb.pc = "len_loaded"
    /\ rdb.len = <<0, 0, 0, 0, 0, 0, 64, 0>>
    /\ rdb.file = <<128, 0, 0, 64, 0>>
    /\ rdb.loaded.len = rdb.len

\* ---- C23
\* s is "0", or digits that start with 1..9, with or without a leading '-'
IsDecimal(s) ==
    Let(IF CharAt(s, 1) = 45 THEN Tail(s) ELSE s, LAMBDA m :
        /\ Len(m) > 0
        /\ \A i \in 1..Len(m) : IsDigit(m[i])
        /\ m[1] = 48 => (Len(m) = 1 /\ Len(s) = 1))
\* the integer a decimal string writes
DecimalValue(s) ==
    Let(IF CharAt(s, 1) = 45 THEN Tail(s) ELSE s, LAMBDA m :
        [neg |-> CharAt(s, 1) = 45, mag |-> [i \in 1..Len(m) |-> m[i] - 48]])
IsCanonicalInt32(s) ==
    IsDecimal(s) /\ InRange(DecimalValue(s), INT32_MIN, INT32_MAX)
\* the tag byte and the number of bytes the smallest fitting width takes
SmallestTag(v) ==
    IF InRange(v, -128, 127) THEN <<192, 1>>
    ELSE IF InRange(v, -32768, 32767) THEN <<193, 2>> ELSE <<194, 4>>

\* C23: a string that is the canonical decimal text of an int32_t is written
\* by rdbSaveRawString as the tag of the smallest width that holds the value
\* (0xC0 for 8, 0xC1 for 16, 0xC2 for 32 bits) followed by that many bytes
\* ("12345" as 0xC1 0x39 0x30), and rdbGenericLoadStringObject returns, under
\* every flag, exactly the bytes of the string saved.
C23_IntegerStringRoundTrip ==
    (rdb.pc \in {"str_saved", "str_loaded"} /\ IsCanonicalInt32(rdb.s)) =>
        /\ rdb.file[1] = SmallestTag(DecimalValue(rdb.s))[1]
        /\ Len(rdb.file) = 1 + SmallestTag(DecimalValue(rdb.s))[2]
        /\ rdb.s = <<49, 50, 51, 52, 53>> => rdb.file = <<193, 57, 48>>
        /\ rdb.pc = "str_loaded" =>
            /\ rdb.loaded.ok /\ ~rdb.loaded.exit
            /\ rdb.loaded.str = rdb.s
            /\ rdb.loaded.rest = <<>>

\* "12345" was saved as 0xC1 0x39 0x30 and loaded back as "12345"
C23_Witness ==
    /\ rdb.pc = "str_loaded"
    /\ rdb.s = <<49, 50, 51, 52, 53>>
    /\ rdb.file = <<193, 57, 48>>
    /\ rdb.loaded.str = <<49, 50, 51, 52, 53>>

\* ---- C21
\* the tuple the load is to give for a saved entry, were every attribute
\* kept (the idle time in the whole seconds the file counts it in)
SavedTuple(e) ==
    [key |-> e.key, val |-> e.val, expire |-> Int64(e.expire),
     lru_idle |-> U64(e.idle \div 1000), lfu_freq |-> e.freq]
SeqRange(s) == {s[i] : i \in 1..Len(s)}

\* C21 as stated: loading the stream rdbSaveRio produced gives, in every
\* database, exactly the (key, value, expire, idle, freq) tuples saved,
\* whatever the databases hold and whatever the eviction policy is.
C21_RoundTripAllTuples ==
    (rdb.pc = "rio_loaded" /\ ~rdb.damaged) =>
        /\ rdb.loaded.ret = C_OK /\ ~rdb.loaded.exit
        /\ \A j \in 1..DbNum :
            SeqRange(rdb.loaded.db[j]) = {SavedTuple(e) : e \in SeqRange(rdb.sv.db[j])}

\* the entry is not dropped by the load: its expire time is not before the
\* clock of a master that loads a file of its own
Survives(e, cfg) ==
    ~(cfg.masterhost = NULL /\ ~cfg.loading_aof /\ e.expire # -1 /\ e.expire < Now)
\* what the load gives for a saved entry
LoadedTuple(e, maxmemory_policy) ==
    [key |-> e.key, val |-> e.val, expire |-> Int64(e.expire),
     lru_idle |-> IF maxmemory_policy = MAXMEMORY_FLAG_LRU
                  THEN U64(e.idle \div 1000) ELSE MinusOne,
     lfu_freq |-> IF maxmemory_policy = MAXMEMORY_FLAG_LFU THEN e.freq ELSE -1]
LoadedTuples(entries, maxmemory_policy, cfg) ==
    Let(SelectSeq(entries, LAMBDA e : Survives(e, cfg)), LAMBDA kept :
        [i \in 1..Len(kept) |-> LoadedTuple(kept[i], maxmemory_policy)])

\* C21 (amended): loading the stream rdbSaveRio produced returns C_OK and
\* adds to every database, in the order saved, the keys saved with their
\* value and expire time, except the keys whose expire time is before the
\* clock of the load when the loading server is a master and the file is
\* not the preamble of an AOF; the idle time reaches objectSetLRUOrLFU in
\* whole seconds, rounded down, only if the saving policy is an LRU one
\* (-1 otherwise), the frequency only if it is an LFU one (-1 otherwise).
C21_RoundTrip ==
    (rdb.pc = "rio_loaded" /\ ~rdb.damaged) =>
        /\ rdb.loaded.ret = C_OK /\ ~rdb.loaded.exit
        /\ \A j \in 1..DbNum :
            rdb.loaded.db[j]
                = LoadedTuples(rdb.sv.db[j], rdb.sv.maxmemory_policy, rdb.cfg)

\* an LRU server saved "a" (idle for 1500 ms) and "b" (expired) and a master
\* loaded the file: "a" came back idle for 1 second, "b" did not come back
C21_Witness ==
    /\ rdb.pc = "rio_loaded" /\ ~rdb.damaged
    /\ rdb.sv.maxmemory_policy = MAXMEMORY_FLAG_LRU
    /\ rdb.sv.db[1] = <<EntryA1, EntryB1>>
    /\ rdb.cfg.masterhost = NULL /\ ~rdb.cfg.loading_aof
    /\ Len(rdb.loaded.db[1]) = 1
    /\ rdb.loaded.db[1][1].key = <<97>>
    /\ rdb.loaded.db[1][1].lru_idle = U64(1)

\* ---- C24
\* the file loaded has a version from 5 on that rdbLoadRio accepts, and its
\* last 8 bytes are not zero and are not the checksum of the bytes before
FileVersion == atoi(SubSeq(rdb.file, 6, 9))
WrongChecksum ==
    /\ FileVersion \in 5..RDB_VERSION
    /\ SubSeq(rdb.file, Len(rdb.file) - 7, Len(rdb.file)) # Zeros(8)
    /\ SubSeq(rdb.file, Len(rdb.file) - 7, Len(rdb.file))
        # CksumBytes(crc64(SubSeq(rdb.file, 1, Len(rdb.file) - 8)))

UnsupportedVersion ==
    /\ SubSeq(rdb.file, 1, 5) = <<82, 69, 68, 73, 83>>
    /\ FileVersion \notin 1..RDB_VERSION

ShortWrite(env) == env.open /\ rdbSaveRio(env.sv, env.room).ret = C_ERR
SignalledWithTempFile ==
    /\ last.op = "backgroundSaveDoneHandlerDisk"
    /\ last.arg.bysignal # 0
    /\ last.arg.temp # "absent"

StepCalls == {"dictFind", "dictAdd", "dictAddRaw", "dictDelete", "dictUnlink"}
OneRehashStep ==
    \E s \in {dictRehash(d, 1).d} :
        /\ d'.ht[0].size = s.ht[0].size
        /\ dictIsRehashing(s) =>
            /\ d'.rehashidx = s.rehashidx
            /\ KeysIn(d', 0) \subseteq KeysIn(s, 0)
            /\ Cardinality(KeysIn(s, 0) \ KeysIn(d', 0)) <= 1
        /\ last'.op = "dictFind" => d' = s
NoSafeIterator == ~(iter.live /\ iter.safe)

\* C31 as stated: every call of dictFind, dictAdd / dictAddRaw or
\* dictDelete / dictUnlink made while a rehash is in progress and no safe
\* iterator is live performs exactly one rehash step, also when the
\* dictionary holds no entries.
C31_EveryCallSteps ==
    [][(last'.op \in StepCalls /\ dictIsRehashing(d) /\ NoSafeIterator)
        => OneRehashStep]_vars

\* C31: every call of dictAdd / dictAddRaw made while a rehash is in
\* progress and no safe iterator is live performs exactly one rehash step;
\* so does every call of dictFind and dictDelete / dictUnlink made then on a
\* dictionary that holds an entry, while on a dictionary that holds none
\* these calls return before the step and leave the rehash where it is.
C31_CallStepsUnlessEmpty ==
    [][(last'.op \in StepCalls /\ dictIsRehashing(d) /\ NoSafeIterator)
        => IF last'.op \in {"dictAdd", "dictAddRaw"} \/ dictSize(d) > 0
           THEN OneRehashStep
           ELSE d' = d]_vars

\* a dictFind has found its key and left a rehash in progress, the cursor
\* past the first bucket
C31_Witness ==
    /\ last.op = "dictFind" /\ last.ret = 1
    /\ dictIsRehashing(d) /\ d.rehashidx > 0
    /\ NoSafeIterator

\* ---- C32
\* The units of a stream after its magic, read as the format delimits them
\* (lengths and strings by the loading functions): [t, n, m, key, meta],
\* t one of "aux", "select", "resize", "entry", "eof" and "bad" (what is no
\* unit); an entry is the opcodes before a key in the order EXPIRETIME_MS,
\* IDLE, FREQ, each at most once, then the type tag, the key and the
\* value, and meta names the opcodes it has.  Units(s) is [units, rest],
\* rest what follows the EOF opcode.
Unit(t, n, m, key, meta) == [t |-> t, n |-> n, m |-> m, key |-> key, meta |-> meta]
Bad == [u |-> Unit("bad", 0, 0, <<>>, {}), rest |-> <<>>]
AfterExpire(s) ==
    IF Len(s) >= 9 /\ s[1] = RDB_OPCODE_EXPIRETIME_MS
    THEN [meta |-> {"expire"}, rest |-> Skip(s, 9)] ELSE [meta |-> {}, rest |-> s]
AfterIdle(x) ==
    IF Len(x.rest) >= 2 /\ x.rest[1] = RDB_OPCODE_IDLE
    THEN Let(rdbLoadLen(Skip(x.rest, 1)), LAMBDA r :
             [meta |-> x.meta \cup {"idle"}, rest |-> r.rest])
    ELSE x
AfterFreq(x) ==
    IF Len(x.rest) >= 2 /\ x.rest[1] = RDB_OPCODE_FREQ
    THEN [meta |-> x.meta \cup {"freq"}, rest |-> Skip(x.rest, 2)] ELSE x
EntryUnit(s) ==
    Let(AfterFreq(AfterIdle(AfterExpire(s))), LAMBDA x :
        IF Len(x.rest) < 1 \/ x.rest[1] # RDB_TYPE_STRING THEN Bad
        ELSE Let(rdbGenericLoadStringObject(Skip(x.rest, 1), RDB_LOAD_NONE), LAMBDA key :
             IF ~key.ok THEN Bad
             ELSE Let(rdbGenericLoadStringObject(key.rest, RDB_LOAD_NONE), LAMBDA val :
                  IF ~val.ok THEN Bad
                  ELSE [u |-> Unit("entry", 0, 0, key.str, x.meta), rest |-> val.rest])))
FirstUnit(s) ==
    IF Len(s) < 1 THEN Bad
    ELSE IF s[1] = RDB_OPCODE_EOF
    THEN [u |-> Unit("eof", 0, 0, <<>>, {}), rest |-> Skip(s, 1)]
    ELSE IF s[1] = RDB_OPCODE_AUX
    THEN Let(rdbGenericLoadStringObject(Skip(s, 1), RDB_LOAD_NONE), LAMBDA key :
             IF ~key.ok THEN Bad
             ELSE Let(rdbGenericLoadStringObject(key.rest, RDB_LOAD_NONE), LAMBDA val :
                  IF ~val.ok THEN Bad
                  ELSE [u |-> Unit("aux", 0, 0, key.str, {}), rest |-> val.rest]))
    ELSE IF s[1] = RDB_OPCODE_SELECTDB
    THEN Let(rdbLoadLen(Skip(s, 1)), LAMBDA r :
             IF r.len = RDB_LENERR \/ r.isencoded = 1 THEN Bad
             ELSE [u |-> Unit("select", U64Value(r.len), 0, <<>>, {}), rest |-> r.rest])
    ELSE IF s[1] = RDB_OPCODE_RESIZEDB
    THEN Let(rdbLoadLen(Skip(s, 1)), LAMBDA r1 :
             IF r1.len = RDB_LENERR \/ r1.isencoded = 1 THEN Bad
             ELSE Let(rdbLoadLen(r1.rest), LAMBDA r2 :
                  IF r2.len = RDB_LENERR \/ r2.isencoded = 1 THEN Bad
                  ELSE [u |-> Unit("resize", U64Value(r1.len), U64Value(r2.len), <<>>, {}),
                        rest |-> r2.rest]))
    ELSE EntryUnit(s)
RECURSIVE Units(_)
Units(s) ==
    Let(FirstUnit(s), LAMBDA f :
        IF f.u.t \in {"eof", "bad"} THEN [units |-> <<f.u>>, rest |-> f.rest]
        ELSE Let(Units(f.rest), LAMBDA more :
                 [units |-> <<f.u>> \o more.units, rest |-> more.rest]))

\* the positions of the units of kind t, the leading "aux" units, the
\* trailing ones (those just before the last unit)
At(T, t) == {i \in 1..Len(T) : T[i].t = t}
Leading(T) == {i \in At(T, "aux") : \A j \in 1..i : T[j].t = "aux"}
Trailing(T) == {i \in At(T, "aux") : \A j \in i..(Len(T) - 1) : T[j].t = "aux"}
Lua == <<108, 117, 97>>
Places(sv) == UNION {{<<j, m>> : m \in 1..Len(sv.db[j])} : j \in 1..Len(sv.db)}
NonEmptyDbs(sv) == {j \in 0..(Len(sv.db) - 1) : sv.db[j + 1] # <<>>}

\* the magic; the units end with the one EOF opcode; every database that
\* holds an entry, and no other, has one SELECTDB, in index order, which
\* RESIZEDB follows with the two sizes and then the database's entries,
\* one unit per key in the iterator's order, each with EXPIRETIME_MS iff
\* the key has an expire; there are no other entries; after the EOF opcode
\* come the 8 bytes of the CRC64 of all before them or, when checksumming
\* is disabled, of 0
Framed(file, sv, T, rest) ==
    /\ SubSeq(file, 1, 9) = <<82, 69, 68, 73, 83, 48, 48, 48, 57>>
    /\ At(T, "bad") = {} /\ At(T, "eof") = {Len(T)}
    /\ {T[i].n : i \in At(T, "select")} = NonEmptyDbs(sv)
    /\ Cardinality(At(T, "select")) = Cardinality(NonEmptyDbs(sv))
    /\ \A i, j \in At(T, "select") : i < j => T[i].n < T[j].n
    /\ Cardinality(At(T, "resize")) = Cardinality(At(T, "select"))
    /\ \A i \in At(T, "select") :
        \E db \in {sv.db[T[i].n + 1]} :
            /\ i + 1 + Len(db) < Len(T)
            /\ T[i + 1].t = "resize"
            /\ T[i + 1].n = Len(db) /\ T[i + 1].m = ExpiresSize(db)
            /\ \A m \in 1..Len(db) :
                /\ T[i + 1 + m].t = "entry"
                /\ T[i + 1 + m].key = db[m].key
                /\ ("expire" \in T[i + 1 + m].meta) = (db[m].expire # -1)
            /\ T[i + 2 + Len(db)].t # "entry"
    /\ Cardinality(At(T, "entry")) = Cardinality(Places(sv))
    /\ Len(rest) = 8
    /\ rest = CksumBytes(IF sv.rdb_checksum
                         THEN crc64(SubSeq(file, 1, Len(file) - 8)) ELSE 0)

InRun(run, op) == {i \in 1..Len(run) : run[i] = op}
ExpireOfRun(run) ==
    IF InRun(run, ExpirePast) # {} THEN Int64(Now - 5)
    ELSE IF InRun(run, ExpireLater) # {} THEN Int64(Now + 10) ELSE MinusOne
IdleOfRun(run) == IF InRun(run, IdleThree) # {} THEN U64(3) ELSE MinusOne
FreqOfRun(run) == IF InRun(run, FreqSeven) # {} THEN 7 ELSE -1
\* the database selected when record i is read
RECURSIVE DbOfRecord(_, _)
DbOfRecord(rs, i) ==
    IF i = 0 THEN 0
    ELSE IF InRun(rs[i], SelectOne) # {} THEN 1 ELSE DbOfRecord(rs, i - 1)
\* record i is not added: the server is a master that is not loading an AOF
\* preamble, and the record's expire time is over
Skipped(rs, i, cfg) ==
    cfg.masterhost = NULL /\ ~cfg.loading_aof /\ InRun(rs[i], ExpirePast) # {}
\* the calls dbAdd(db, key, val) of a load, with the expire and the usage set
Added(loaded) ==
    {[db |-> j - 1, e |-> loaded.db[j][m]] :
        <<j, m>> \in {x \in (1..DbNum) \X (1..MaxRecords) : x[2] <= Len(loaded.db[x[1]])}}
ExpectedOfRecord(rs, i) ==
    [db |-> DbOfRecord(rs, i),
     e |-> [key |-> <<96 + i>>, val |-> <<120>>, expire |-> ExpireOfRun(rs[i]),
            lru_idle |-> IdleOfRun(rs[i]), lfu_freq |-> FreqOfRun(rs[i])]]
Loaded == rdb.pc = "rio_loaded" /\ ~rdb.loaded.exit /\ rdb.loaded.ret = C_OK

\* C33: after rdbLoadRio every record that was not skipped as expired is in
\* its database with the expire time, idle time and frequency of the
\* opcodes that stand between the record before it and itself, and with
\* none of those of an earlier record, added or skipped; a record with no
\* such opcode has no expire, no idle time and no frequency.
C33_MetadataForNextRecordOnly ==
    Loaded =>
        /\ Added(rdb.loaded) =
              {ExpectedOfRecord(rdb.sv, i) :
                  i \in {x \in 1..Len(rdb.sv) : ~Skipped(rdb.sv, x, rdb.cfg)}}
        /\ \A a \in Added(rdb.loaded) :
              \A i \in 1..Len(rdb.sv) :
                  (a.e.key = <<96 + i>> /\ rdb.sv[i] \in {<<>>, <<SelectOne>>})
                      => /\ a.e.expire = MinusOne
                         /\ a.e.lru_idle = MinusOne
                         /\ a.e.lfu_freq = -1

\* the first record has the three opcodes and was added, the second has an
\* expire time that is over and was skipped, the third has no opcode and
\* was added with no expire
C33_Witness ==
    /\ Loaded
    /\ Len(rdb.sv) = 3
    /\ rdb.sv[1] = <<ExpireLater, IdleThree, FreqSeven>>
    /\ rdb.sv[2] = <<ExpirePast>> /\ Skipped(rdb.sv, 2, rdb.cfg)
    /\ rdb.sv[3] = <<>>
    /\ Cardinality(Added(rdb.loaded)) = 2
    /\ \E a \in Added(rdb.loaded) : a.e.key = <<99>> /\ a.e.expire = MinusOne

\* ---- C34
HandlerRan == last.op = "backgroundSaveDoneHandlerDisk"
ChildSucceeded == HandlerRan /\ last.arg.bysignal = 0 /\ last.arg.exitcode = 0

\* C34: after the handler of a child that exited with 0 the dirty counter
\* is the number of changes made since the fork, the time of the last save
\* is the time of the call and the status is C_OK; after the handler of a
\* child that exited with an error or was ended by a signal the dirty
\* counter and the time of the last save are what they were.
C34_DirtyAfterBackgroundSave ==
    HandlerRan =>
        IF ChildSucceeded
        THEN /\ server.dirty = last.arg.since_fork
             /\ server.lastsave = last.arg.now
             /\ server.lastbgsave_status = C_OK
        ELSE /\ server.dirty = last.arg.dirty
             /\ server.lastsave = last.arg.lastsave

\* a child succeeded; there were changes before the fork and changes after
\* it, and the time of the last save moved
C34_Witness ==
    /\ ChildSucceeded
    /\ last.arg.since_fork > 0 /\ last.arg.dirty > last.arg.since_fork
    /\ server.dirty = last.arg.since_fork
    /\ server.lastsave > last.arg.lastsave

\* ---- C35
\* what a call dictRehash(d, n) has done between d and d'
RehashCalled == last'.op = "dictRehash" /\ last'.arg >= 1 /\ dictIsRehashing(d)
BucketMigrated ==
    \E idx \in 0..(d.ht[0].size - 1) :
        /\ d.ht[0].table[idx] # <<>>
        /\ dictIsRehashing(d') /\ d'.ht[0].table[idx] = <<>>
        /\ ChainKeys(d.ht[0].table[idx]) \subseteq KeysIn(d', 1)
EmptyBucketsPassed ==
    /\ dictIsRehashing(d')
    /\ d'.rehashidx >= d.rehashidx + 10 * last'.arg
    /\ \A idx \in d.rehashidx..(d.rehashidx + 10 * last'.arg - 1) :
          d.ht[0].table[idx] = <<>>
RehashFinished ==
    /\ d'.rehashidx = -1
    /\ d'.ht[0].size = d.ht[1].size /\ KeysIn(d', 0) = KeysIn(d, 0) \cup KeysIn(d, 1)
    /\ IsNull(d'.ht[1].table)

\* C35: a call dictRehash(d, n), n >= 1, during a rehash migrates a whole
\* bucket to T1, or advances the cursor past 10 * n empty buckets, or ends
\* the rehash (T1 becomes T0, the cursor -1); it returns 0 exactly when no
\* rehash is in progress afterwards; and calls repeated for ever end every
\* rehash.
C35_RehashTerminates ==
    /\ [][RehashCalled =>
            /\ BucketMigrated \/ EmptyBucketsPassed \/ RehashFinished
            /\ (last'.ret = 0) <=> ~dictIsRehashing(d')]_vars
    /\ [][(last'.op = "dictRehash" /\ last'.arg >= 1 /\ ~dictIsRehashing(d))
            => (last'.ret = 0 /\ ~dictIsRehashing(d'))]_vars
    /\ (dictIsRehashing(d) ~> ~dictIsRehashing(d))

\* dictRehash(d, 1) has passed 10 empty buckets and returned 1 with no entry
\* moved
C35_Witness ==
    /\ last.op = "dictRehash" /\ last.arg = 1 /\ last.ret = 1
    /\ d.rehashidx = 10
    /\ d.ht[0].used > 0 /\ d.ht[1].used = 0

\* ---- C36
\* What the counter holds for a block: nothing for a block that is not
\* allocated, nothing between malloc and the atomicIncr of zmalloc,
\* nothing between the atomicDecr of zfree and free, the old size and then
\* nothing between the two updates of zrealloc, and otherwise the size in
\* its prefix, each with PREFIX_SIZE.
Accounted(ptr) ==
    IF zm.header[ptr] = Unallocated THEN 0
    ELSE IF ~Busy(ptr) THEN zm.header[ptr] + PREFIX_SIZE
    ELSE LET th == zm.thread[CHOOSE t \in Threads :
                         zm.thread[t].pc # "idle" /\ zm.thread[t].ptr = ptr]
         IN  IF th.op = "zmalloc" \/ th.pc = "free" THEN 0
             ELSE IF th.op = "zrealloc" /\ Len(th.todo) = 1 THEN 0
             ELSE th.todo[1].n

RECURSIVE SumAccounted(_)
SumAccounted(ptrs) ==
    IF ptrs = {} THEN 0
    ELSE LET p == CHOOSE x \in ptrs : TRUE
         IN  Accounted(p) + SumAccounted(ptrs \ {p})

\* C36: under every interleaving of the allocator calls of the main thread
\* and of a background worker no update of used_memory is lost: the
\* counter is the sum of what is accounted for the allocated blocks, so
\* that between calls it is the sum of size + PREFIX_SIZE over the blocks
\* held, and is back at its earlier value once a block allocated (and
\* possibly reallocated) is freed.
C36_NoLostUpdate ==
    zm.used_memory = SumAccounted(Ptrs)

\* a thread about to add to the counter after the other thread changed it
\* since this thread entered the macro
C36_Witness ==
    \E t \in Threads :
        /\ zm.thread[t].pc = "store"
        /\ zm.thread[t].loaded # zm.used_memory
        /\ last.op \in {"incr", "decr"}

\* ---- C37
Submitted(t, id) == \E i \in DOMAIN history.submitted[t] : history.submitted[t][i].id = id
Executed(t, id) == \E i \in DOMAIN history.executed[t] : history.executed[t][i].id = id

\* C37: with the worker threads scheduled, every job handed to
\* bioCreateBackgroundJob is executed in the end, and the pending count of
\* every kind comes to 0 and stays there once no more jobs are created (the
\* caller creates MaxJobs jobs at most, so in every run it stops creating):
\* the signal on the new-job condition is never missed by the worker.
C37_EveryJobRuns ==
    /\ \A t \in Kinds, id \in 1..MaxJobs : Submitted(t, id) ~> Executed(t, id)
    /\ \A t \in Kinds : <>[](bio_pending[t] = 0)

\* the worker, which has run a job before and went back to wait, was woken
\* by the signal of the job just created
C37_Witness ==
    \E t \in Kinds :
        /\ last = L("bioCreateBackgroundJob", t, 0)
        /\ bio_thread[t].pc = "newjob_woken"
        /\ listLength(bio_jobs[t]) = 1
        /\ Len(history.executed[t]) = 1

\* ---- C38
\* the snapshot children forked and not yet waited for are the one child
\* recorded in rdb_child_pid, or none
OneChildRecorded ==
    /\ Cardinality(server.running) <= 1
    /\ server.running = IF server.rdb_child_pid = -1 THEN {} ELSE {server.rdb_child_pid}
    /\ (server.rdb_child_type = RDB_CHILD_TYPE_NONE) = (server.rdb_child_pid = -1)

\* a step of rdbSaveBackground or rdbSaveToSlavesSockets that forked
Forked == server'.running \ server.running # {}
\* a step in which saveCommand called rdbSave
SaveRan == last'.op = "rdbSave"
\* a step of backgroundSaveDoneHandler
HandlerStep ==
    /\ server.child.pc \in {"exited", "killed"}
    /\ server'.child = NoChild
    /\ last'.op \in {"backgroundSaveDoneHandlerDisk", "backgroundSaveDoneHandlerSocket"}

\* C38: at most one snapshot child is recorded in every state; a save to
\* disk or to the replicas forks only when neither an RDB child nor an AOF
\* child is recorded, SAVE runs rdbSave only when no RDB child is recorded,
\* and the handler of the child's end leaves rdb_child_pid at -1 whether the
\* child succeeded, failed or was ended by a signal.
C38_OneSnapshotChild ==
    /\ []OneChildRecorded
    /\ [][/\ Forked => server.rdb_child_pid = -1 /\ server.aof_child_pid = -1
          /\ SaveRan => server.rdb_child_pid = -1
          /\ HandlerStep => server'.rdb_child_pid = -1 /\ server'.running = {}]_vars

\* a transfer to the replicas was refused while a child saving to disk is
\* recorded and running
C38_Witness ==
    /\ last.op = "rdbSaveToSlavesSockets" /\ last.ret = C_ERR
    /\ server.rdb_child_type = RDB_CHILD_TYPE_DISK
    /\ server.child.pc = "write"
    /\ server.aof_child_pid = -1
    /\ server.running = {server.rdb_child_pid}


\* ---- C39
\* C39: when dictNext of a safe iterator has returned NULL, every entry
\* that was in the dict from the first dictNext on has been returned
\* exactly once, and at no point of the walk has such an entry been
\* returned twice; the caller inserted keys between the calls and deleted
\* entries dictNext had just returned, and a rehash may have been in
\* progress from the start or have started during the walk.
C39_WalkReturnsEachOnce ==
    iter.live /\ iter.safe =>
        /\ iter.twice = {}
        /\ iter.done => iter.stay \subseteq iter.returned

\* the end of a walk that began during a rehash with entries in both
\* tables, in which a returned entry was deleted and a key was inserted
C39_Witness ==
    /\ iter.live /\ iter.safe /\ iter.done
    /\ dictIsRehashing(d) /\ d.rehashidx > 0
    /\ Cardinality(iter.stay) >= 2
    /\ \E k \in iter.stay : PlaceOf(d, k)[1].t = 0
    /\ \E k \in iter.stay : PlaceOf(d, k)[1].t = 1
    /\ \E k \in KeysResize \ iter.stay : PlaceOf(d, k) # NoEntry
    /\ \E k \in KeysResize \ iter.stay : PlaceOf(d, k) = NoEntry

\* ---- C40
\* the safe iterators that have made their first dictNext and are not
\* released (the caller holds one iterator at a time)
StartedSafeIterators ==
    IF iter.live /\ iter.safe /\ ~(iter.index = -1 /\ iter.table = 0) THEN 1 ELSE 0

\* C40: d->iterators is the number of safe iterators that have started and
\* are not released, and it never wraps below 0.
C40_IteratorsCounted ==
    /\ d.iterators = StartedSafeIterators
    /\ d.iterators >= 0

\* dictReleaseIterator has taken the counter below 0
C40_Underflow == d.iterators < 0
====
